---- MODULE Spec2Model ----
(***************************************************************************)
(* Verification model of the domain resolution library: the orchestrator   *)
(* (Resolution.callForDomain / callForDomainBoolean / prepareServiceCalls), *)
(* the hashing engine (hashArray, Zns.childhash) and the Zilliqa backend.   *)
(*                                                                         *)
(* A JavaScript string is modelled as a sequence of one-character strings. *)
(* An async function is cut at its awaits: each action is one synchronous  *)
(* run of the code between two suspension points.                          *)
(***************************************************************************)
EXTENDS Integers, Sequences, FiniteSets, TLC

VARIABLES
    serviceMap,      \* Resolution.serviceMap: naming service name -> usedServices
    pc,              \* position of the orchestrator call
    method,          \* public method of Resolution that was called
    rawDomain,       \* the domain string as the caller passed it
    domain,          \* the domain after prepareAndValidateDomain
    func,            \* backend method dispatched by the call
    args,            \* arguments handed to every backend
    servicePromises, \* the wrapped promises built by prepareServiceCalls
    idx,             \* index of the promise the for-loop is awaiting
    settleOrder,     \* the backends in the order their operations completed
    callOutcome,     \* how the orchestrator call ended: {result, error}
    hashIn,          \* hashing: the scheme, parent domain and label given
    hashOut,         \* hashing: the namehash and childhash computed
    chain,           \* what the registries answer for the requested domain
    request,         \* currency lookup: the domain and ticker asked for
    response,        \* currency lookup: the operation run and its outcome
    resolved,        \* record structuring: the nested records and the addresses
    formatted,       \* hashing: the hash handed to formatNamehash and its output
    sourceDefinition, \* configuration: the source a backend is constructed from
    backend,         \* configuration: the constructed backend, or the error thrown
    site,            \* errors: the throw site and the values known there
    thrown,          \* errors: the error object the throw site constructed
    ensChain,        \* Ens: the registry, the resolver and the transport's faults
    ens,             \* Ens: the call in progress, its reads and its outcome
    other            \* a second orchestrator call, suspended at an await

dispatchVars == <<serviceMap, pc, method, rawDomain, domain, func, args,
                  servicePromises, idx, settleOrder, callOutcome>>

hashVars == <<hashIn, hashOut, formatted>>

znsVars == <<chain, request, response, resolved>>

configVars == <<sourceDefinition, backend>>

errorVars == <<site, thrown>>

ensVars == <<ensChain, ens>>

vars == <<dispatchVars, hashVars, znsVars, configVars, errorVars, ensVars, other>>

----------------------------------------------------------------------------
(* Strings *)

Dot == "."
Space == " "

RECURSIVE SplitFrom(_, _, _)
\* String.prototype.split(sep): the labels of s, an empty string giving <<"">>
SplitFrom(s, sep, cur) ==
    IF s = <<>> THEN <<cur>>
    ELSE IF Head(s) = sep THEN <<cur>> \o SplitFrom(Tail(s), sep, <<>>)
    ELSE SplitFrom(Tail(s), sep, Append(cur, Head(s)))

Split(s, sep) == SplitFrom(s, sep, <<>>)

RECURSIVE Join(_, _)
\* Array.prototype.join(sep): an empty array gives the empty string
Join(parts, sep) ==
    IF parts = <<>> THEN <<>>
    ELSE IF Len(parts) = 1 THEN parts[1]
    ELSE parts[1] \o <<sep>> \o Join(Tail(parts), sep)

LowerOf(c) ==
    CASE c = "A" -> "a"
      [] c = "B" -> "b"
      [] c = "Z" -> "z"
      [] c = "I" -> "i"
      [] c = "L" -> "l"
      [] OTHER -> c

UpperOf(c) ==
    CASE c = "a" -> "A"
      [] c = "b" -> "B"
      [] c = "c" -> "C"
      [] c = "e" -> "E"
      [] c = "h" -> "H"
      [] c = "t" -> "T"
      [] OTHER -> c

ToLowerCase(s) == [i \in 1..Len(s) |-> LowerOf(s[i])]
ToUpperCase(s) == [i \in 1..Len(s) |-> UpperOf(s[i])]

RECURSIVE TrimStart(_)
TrimStart(s) == IF s # <<>> /\ Head(s) = Space THEN TrimStart(Tail(s)) ELSE s

RECURSIVE TrimEnd(_)
TrimEnd(s) ==
    IF s # <<>> /\ s[Len(s)] = Space THEN TrimEnd(SubSeq(s, 1, Len(s) - 1)) ELSE s

Trim(s) == TrimEnd(TrimStart(s))

----------------------------------------------------------------------------
(* Hashing engine *)

\* width of a digest in bytes (32 in the library, scaled down)
HashLen == 2
MaxParentLen == 3
MaxLabelLen == 2

HexDigits == <<"0", "1", "2", "3", "4", "5", "6", "7",
               "8", "9", "a", "b", "c", "d", "e", "f">>

\* code unit of a character (its UTF-8 byte)
CharCode(c) ==
    CASE c = "a" -> 97
      [] c = "b" -> 98
      [] c = "." -> 46
      [] OTHER -> 63

Utf8(str) == [i \in 1..Len(str) |-> CharCode(str[i])]

RECURSIVE Pow(_, _)
Pow(b, n) == IF n = 0 THEN 1 ELSE b * Pow(b, n - 1)

RECURSIVE Absorb(_, _, _)
Absorb(h, bytes, m) ==
    IF bytes = <<>> THEN h
    ELSE Absorb((h * 31 + Head(bytes) + 1) % m, Tail(bytes), m)

\* hashingAlgo.array(message): stand-in for the two digests, HashLen bytes
\* computed from every input byte in order, different for each scheme
Digest(alg, bytes) ==
    LET m == Pow(256, HashLen)
        seed == IF alg = "sha256" THEN 7 ELSE 11
        h == Absorb(seed, bytes, m)
    IN  [i \in 1..HashLen |-> (h \div Pow(256, HashLen - i)) % 256]

\* x.toString(16)
ToString16(x) ==
    IF x < 16 THEN <<HexDigits[x + 1]>>
    ELSE <<HexDigits[(x \div 16) + 1], HexDigits[(x % 16) + 1]>>

\* str.slice(-2)
SliceLast2(str) == IF Len(str) <= 2 THEN str ELSE SubSeq(str, Len(str) - 1, Len(str))

RECURSIVE HexOfBytes(_)
HexOfBytes(arr) ==
    IF arr = <<>> THEN <<>>
    ELSE SliceLast2(<<"0", "0">> \o ToString16(Head(arr))) \o HexOfBytes(Tail(arr))

\* arrayToHex(arr)
arrayToHex(arr) == <<"0", "x">> \o HexOfBytes(arr)

\* variant: the label hash is put before the hash of the remainder
RECURSIVE hashArray_LabelFirst(_, _)
hashArray_LabelFirst(d, hashingAlgo) ==
    IF d = <<>> THEN [i \in 1..HashLen |-> 0]
    ELSE LET tokens == Split(d, Dot)
             label == Head(tokens)
             remainder == Tail(tokens)
             labelHash == Digest(hashingAlgo, Utf8(label))
             remainderHash == hashArray_LabelFirst(Join(remainder, Dot), hashingAlgo)
         IN  Digest(hashingAlgo, labelHash \o remainderHash)

RECURSIVE hashArray(_, _)
\* hashArray(domain, hashingAlgo)
hashArray(d, hashingAlgo) ==
    IF d = <<>> THEN [i \in 1..HashLen |-> 0]
    ELSE LET tokens == Split(d, Dot)
             label == Head(tokens)
             remainder == Tail(tokens)
             labelHash == Digest(hashingAlgo, Utf8(label))
             remainderHash == hashArray(Join(remainder, Dot), hashingAlgo)
         IN  Digest(hashingAlgo, remainderHash \o labelHash)

eip137Namehash(d) == arrayToHex(hashArray(d, "keccak256"))
znsNamehash(d) == arrayToHex(hashArray(d, "sha256"))

HexValue(c) == CHOOSE v \in 0..15 : HexDigits[v + 1] = c

RECURSIVE HexToBytes(_)
\* the bytes of a hex string, two digits a byte
HexToBytes(hex) ==
    IF Len(hex) < 2 THEN <<>>
    ELSE <<HexValue(hex[1]) * 16 + HexValue(hex[2])>> \o HexToBytes(SubSeq(hex, 3, Len(hex)))

\* sha256(message, {hexPrefix, inputEnc}) of utils/sha256, and its keccak twin
HashHex(alg, message, hexPrefix, inputEnc) ==
    LET bytes == IF inputEnc = "hex" THEN HexToBytes(message) ELSE Utf8(message)
    IN  (IF hexPrefix THEN <<"0", "x">> ELSE <<>>) \o HexOfBytes(Digest(alg, bytes))

\* parent.replace(/^0x/, '')
StripHexPrefix(str) ==
    IF Len(str) >= 2 /\ SubSeq(str, 1, 2) = <<"0", "x">>
    THEN SubSeq(str, 3, Len(str)) ELSE str

\* Zns.childhash(parent, label, options)
ZnsChildhash(parent, label, options) ==
    LET stripped == StripHexPrefix(parent)
    IN  HashHex("sha256", stripped \o HashHex("sha256", label, FALSE, "utf8"),
                options.prefix, "hex")

\* childhash of the Keccak scheme: digest(parent || digest(label))
UnsChildhash(parent, label, options) ==
    LET stripped == StripHexPrefix(parent)
    IN  HashHex("keccak256", stripped \o HashHex("keccak256", label, FALSE, "utf8"),
                options.prefix, "hex")

RECURSIVE StringsUpTo(_, _)
\* the strings over an alphabet of at most n characters
StringsUpTo(alphabet, n) ==
    IF n = 0 THEN {<<>>}
    ELSE LET shorter == StringsUpTo(alphabet, n - 1)
         IN  shorter \cup {Append(str, c) : str \in shorter, c \in alphabet}

HashInputs ==
    [alg : {"sha256", "keccak256"},
     parent : StringsUpTo({"a", "b", "."}, MaxParentLen),
     label : StringsUpTo({"a", "b"}, MaxLabelLen),
     prefixed : BOOLEAN]

NoHash == <<"n", "o", "n", "e">>

\* namehash of label + "." + parent in the scheme of hashIn
Namehash ==
    /\ hashIn.alg # "none"
    /\ hashOut.namehash = NoHash
    /\ LET d == hashIn.label \o <<Dot>> \o hashIn.parent
       IN  hashOut' = [hashOut EXCEPT !.namehash =
                          IF hashIn.alg = "sha256" THEN znsNamehash(d)
                          ELSE eip137Namehash(d)]
    /\ UNCHANGED <<dispatchVars, hashIn, formatted, znsVars, configVars, errorVars, ensVars, other>>

\* childhash of the parent's namehash, handed over with or without the 0x
\* prefix, and the label
Childhash ==
    /\ hashIn.alg # "none"
    /\ hashOut.childhash = NoHash
    /\ LET parentHash == IF hashIn.alg = "sha256" THEN znsNamehash(hashIn.parent)
                         ELSE eip137Namehash(hashIn.parent)
           parent == IF hashIn.prefixed THEN parentHash ELSE StripHexPrefix(parentHash)
       IN  hashOut' = [hashOut EXCEPT !.childhash =
                          IF hashIn.alg = "sha256"
                          THEN ZnsChildhash(parent, hashIn.label, [prefix |-> TRUE])
                          ELSE UnsChildhash(parent, hashIn.label, [prefix |-> TRUE])]
    /\ UNCHANGED <<dispatchVars, hashIn, formatted, znsVars, configVars, errorVars, ensVars, other>>

RECURSIVE HexToNumber(_)
\* new BN(hash, 'hex'): the hex digits read as an unsigned integer
HexToNumber(hex) ==
    IF hex = <<>> THEN 0
    ELSE HexToNumber(SubSeq(hex, 1, Len(hex) - 1)) * 16 + HexValue(hex[Len(hex)])

RECURSIVE ToString10(_)
\* BN.toString(10): the decimal digits of an unsigned integer
ToString10(n) ==
    IF n < 10 THEN <<HexDigits[n + 1]>>
    ELSE ToString10(n \div 10) \o <<HexDigits[(n % 10) + 1]>>

\* hash.replace('0x', ''): the first occurrence of 0x is taken out
Replace0x(hash) ==
    LET at == {i \in 1..(Len(hash) - 1) : SubSeq(hash, i, i + 1) = <<"0", "x">>}
    IN  IF at = {} THEN hash
        ELSE LET i == CHOOSE i \in at : \A j \in at : i <= j
             IN  SubSeq(hash, 1, i - 1) \o SubSeq(hash, i + 2, Len(hash))

\* variant: the 0x of the hash is left in place
formatNamehash_KeepsPrefix(hash, options) ==
    IF options.format = "dec" THEN ToString10(HexToNumber(Replace0x(hash)))
    ELSE IF options.prefix THEN <<"0", "x">> \o Replace0x(hash) ELSE hash

\* Resolution.formatNamehash(hash, options)
formatNamehash(hash, options) ==
    LET stripped == Replace0x(hash)
    IN  IF options.format = "dec" THEN ToString10(HexToNumber(stripped))
        ELSE IF options.prefix THEN <<"0", "x">> \o stripped ELSE stripped

NamehashOptions == [format : {"hex", "dec"}, prefix : BOOLEAN]

\* the last step of Resolution.namehash and Resolution.childhash: the hash the
\* native service computed is formatted as the options ask
FormatNamehash ==
    /\ formatted.out = NoHash
    /\ \E options \in NamehashOptions, which \in {"namehash", "childhash"} :
          /\ hashOut[which] # NoHash
          /\ formatted' = [hash |-> hashOut[which], options |-> options,
                           out |-> formatNamehash(hashOut[which], options)]
    /\ UNCHANGED <<dispatchVars, hashIn, hashOut, znsVars, configVars, errorVars, ensVars, other>>

----------------------------------------------------------------------------
(* Errors and wrapped backend results *)

UnregisteredDomain == "UnregisteredDomain"
UnsupportedDomain == "UnsupportedDomain"
NamingServiceDown == "NamingServiceDown"
RecordNotFound == "RecordNotFound"
UnspecifiedResolver == "UnspecifiedResolver"
UnspecifiedCurrency == "UnspecifiedCurrency"

\* the null of {result: ..., error: null}
NullError == [class |-> "null", code |-> "null", domain |-> <<>>, origin |-> 0]

\* new ResolutionError(code, {domain}); origin tells which party created the
\* object: 0 is the orchestrator, i > 0 the i-th backend of the list
ResolutionError(code, d, origin) ==
    [class |-> "ResolutionError", code |-> code, domain |-> d, origin |-> origin]

\* an error object that is not an instance of ResolutionError
PlainError(code, origin) ==
    [class |-> "Error", code |-> code, domain |-> <<>>, origin |-> origin]

NullResult == "null"

Pending == [state |-> "pending", result |-> NullResult, error |-> NullError]
Fulfilled(result) == [state |-> "settled", result |-> result, error |-> NullError]
Rejected(error) == [state |-> "settled", result |-> NullResult, error |-> error]

NoOutcome == [result |-> NullResult, error |-> NullError]

\* truthiness of a JavaScript value
Truthy(v) == v \notin {"null", "false", "undefined", ""}

----------------------------------------------------------------------------
(* Resolution: construction and routing *)

StrZil == <<"z", "i", "l">>
StrCrypto == <<"c", "r", "y", "p", "t", "o">>
StrCom == <<"c", "o", "m">>

UNS == "UNS"
ZNS == "ZNS"
NoService == "none"

\* isApi(obj): obj && obj.api
isApi(source) == source.api

\* the source configurations a Resolution is constructed with
SourceConfigs ==
    [uns : [api : BOOLEAN, url : {"url1"}],
     zns : [api : BOOLEAN, url : {"url1", "url2"}]]

\* variant: the native service is the configured one, API mode included
Constructor_NativeIsUsed(sourceConfig) ==
    LET uns == IF isApi(sourceConfig.uns)
               THEN [class |-> "UdApi", url |-> sourceConfig.uns.url]
               ELSE [class |-> "Uns", url |-> sourceConfig.uns.url]
        zns == IF isApi(sourceConfig.zns)
               THEN [class |-> "UdApi", url |-> sourceConfig.zns.url]
               ELSE [class |-> "Zns", url |-> sourceConfig.zns.url]
        equalUdApiProviders ==
            uns.class = "UdApi" /\ zns.class = "UdApi" /\ uns.url = zns.url
    IN  [n \in {UNS, ZNS} |->
           IF n = UNS
           THEN [usedServices |-> <<uns>>, native |-> uns]
           ELSE [usedServices |-> IF equalUdApiProviders THEN <<uns>> ELSE <<uns, zns>>,
                 native |-> zns]]

\* new Resolution({sourceConfig}): the serviceMap it builds
Constructor(sourceConfig) ==
    LET uns == IF isApi(sourceConfig.uns)
               THEN [class |-> "UdApi", url |-> sourceConfig.uns.url]
               ELSE [class |-> "Uns", url |-> sourceConfig.uns.url]
        zns == IF isApi(sourceConfig.zns)
               THEN [class |-> "UdApi", url |-> sourceConfig.zns.url]
               ELSE [class |-> "Zns", url |-> sourceConfig.zns.url]
        equalUdApiProviders ==
            uns.class = "UdApi" /\ zns.class = "UdApi" /\ uns.url = zns.url
    IN  [n \in {UNS, ZNS} |->
           IF n = UNS
           THEN [usedServices |-> <<uns>>,
                 native |-> IF isApi(sourceConfig.uns)
                            THEN [class |-> "Uns", url |-> "default"] ELSE uns]
           ELSE [usedServices |-> IF equalUdApiProviders THEN <<uns>> ELSE <<uns, zns>>,
                 native |-> IF isApi(sourceConfig.zns)
                            THEN [class |-> "Zns", url |-> "default"] ELSE zns]]

\* the source configuration of new Resolution() without arguments
DefaultSourceConfig ==
    [uns |-> [api |-> FALSE, url |-> "default"],
     zns |-> [api |-> FALSE, url |-> "default"]]

\* the configurations Resolution.autoNetwork is called with: uns given or not
AutoNetworkConfigs == [uns : {[given |-> FALSE, url |-> "default"],
                              [given |-> TRUE, url |-> "url1"]}]

\* Resolution.autoNetwork(sourceConfig): the serviceMap of the instance it
\* returns; Uns.autoNetwork gives a chain-backed Uns on the detected network
autoNetwork(sourceConfig) ==
    LET resolution == Constructor(DefaultSourceConfig)
        uns == [class |-> "Uns", url |-> sourceConfig.uns.url]
    IN  IF sourceConfig.uns.given
        THEN [resolution EXCEPT ![UNS] = [usedServices |-> <<uns>>, native |-> uns]]
        ELSE resolution

\* service.native.namehash(domain): the hashing scheme of the native backend;
\* the API backend has no local scheme and would have to ask the API
NativeAlgorithm(native) ==
    IF native.class = "Zns" THEN "sha256"
    ELSE IF native.class = "Uns" THEN "keccak256"
    ELSE "api"

NativeNamehash(native, d) ==
    IF NativeAlgorithm(native) = "sha256" THEN znsNamehash(d)
    ELSE IF NativeAlgorithm(native) = "keccak256" THEN eip137Namehash(d)
    ELSE NoHash

NamehashOptionsDefault == [format |-> "hex", prefix |-> TRUE]

\* prepareAndValidateDomain(domain): trim and lowercase
prepareAndValidateDomain(d) == ToLowerCase(Trim(d))

\* findNamingServiceName(domain): the naming service owning the rightmost label
findNamingServiceName(d) ==
    LET tokens == Split(d, Dot)
        extension == tokens[Len(tokens)]
    IN  IF extension = StrZil THEN ZNS
        ELSE IF extension = StrCrypto THEN UNS
        ELSE NoService

----------------------------------------------------------------------------
(* Backends as the orchestrator sees them: a method call that throws,      *)
(* returns a value, or returns a promise that later fulfils or rejects     *)

ValueResults == {"r1", "r2", NullResult}
BooleanResults == {"true", "false"}

ValueMethods == {"owner", "record"}
BooleanMethods == {"isRegistered", "isAvailable", "isSupportedDomain"}

ResolutionErrorCodes ==
    {UnregisteredDomain, NamingServiceDown, RecordNotFound, UnspecifiedResolver}

\* the errors the i-th backend of the list can raise for a call on domain d
BackendErrors(i, d) ==
    {ResolutionError(c, d, i) : c \in ResolutionErrorCodes}
      \cup {PlainError(c, i) : c \in {"none", UnregisteredDomain}}

\* the settled states of the wrapped promise of backend i
BackendOutcomes(i, f, d) ==
    {Fulfilled(r) : r \in IF f \in BooleanMethods THEN BooleanResults ELSE ValueResults}
      \cup {Rejected(e) : e \in BackendErrors(i, d)}

\* variant: every ResolutionError triggers the fallback
IsUnregisteredDomain_AnyCode(error) == error.class = "ResolutionError"

\* error instanceof ResolutionError && error.code === UnregisteredDomain
IsUnregisteredDomain(error) ==
    error.class = "ResolutionError" /\ error.code = UnregisteredDomain

\* variant: only the first backend is called up front
prepareServiceCalls_Lazy(services, f, a) ==
    {sp \in [{1} -> {Pending} \cup BackendOutcomes(1, f, a[1])] : Len(services) > 0}

\* prepareServiceCalls(services, func, args): every backend method is called
\* at once, in list order; a synchronous throw or value gives a promise that
\* is already settled, an asynchronous call one that is still pending
prepareServiceCalls(services, f, a) ==
    {sp \in [1..Len(services) -> {Pending} \cup UNION {BackendOutcomes(i, f, a[1]) :
                                                       i \in 1..Len(services)}] :
        \A i \in 1..Len(services) : sp[i] \in {Pending} \cup BackendOutcomes(i, f, a[1])}

----------------------------------------------------------------------------
(* Resolution.callForDomain and callForDomainBoolean *)

RawDomains ==
    { <<"b", ".">> \o StrZil,
      <<" ", "B", ".", "Z", "I", "L">>,
      <<"b", ".">> \o StrCrypto,
      <<"b", ".">> \o StrCom,
      <<>> }

Throw(error) ==
    /\ pc' = "thrown"
    /\ callOutcome' = [result |-> NullResult, error |-> error]

Return(result) ==
    /\ pc' = "returned"
    /\ callOutcome' = [result |-> result, error |-> NullError]

\* the backends whose promise is settled, in list order
SettledIndices(sp) ==
    SelectSeq([i \in 1..Len(sp) |-> i], LAMBDA i : sp[i].state = "settled")

\* variant: an unrouted suffix is sent to the UNS backends
callForDomain_NoRouteCheck(d, f, a) ==
    LET found == findNamingServiceName(d)
        serviceName == IF found = NoService THEN UNS ELSE found
    IN  /\ domain' = d /\ func' = f /\ args' = a
        /\ servicePromises' \in
               prepareServiceCalls(serviceMap[serviceName].usedServices, f, a)
        /\ settleOrder' = SettledIndices(servicePromises')
        /\ idx' = 1
        /\ pc' = "callForDomain"
        /\ UNCHANGED callOutcome

\* callForDomain up to its first await
callForDomain(d, f, a) ==
    LET serviceName == findNamingServiceName(d)
    IN  /\ domain' = d /\ func' = f /\ args' = a
        /\ IF serviceName = NoService
           THEN /\ Throw(ResolutionError(UnsupportedDomain, d, 0))
                /\ UNCHANGED <<servicePromises, idx, settleOrder>>
           ELSE /\ servicePromises' \in
                       prepareServiceCalls(serviceMap[serviceName].usedServices, f, a)
                /\ settleOrder' = SettledIndices(servicePromises')
                /\ idx' = 1
                /\ pc' = "callForDomain"
                /\ UNCHANGED callOutcome

\* callForDomainBoolean up to its first await
callForDomainBoolean(d, f, a, options) ==
    LET serviceName == findNamingServiceName(d)
    IN  /\ domain' = d /\ func' = f /\ args' = a
        /\ IF serviceName = NoService
           THEN /\ IF ~options.throwIfUnsupportedDomain
                   THEN Return("false")
                   ELSE Throw(ResolutionError(UnsupportedDomain, d, 0))
                /\ UNCHANGED <<servicePromises, idx, settleOrder>>
           ELSE /\ servicePromises' \in
                       prepareServiceCalls(serviceMap[serviceName].usedServices, f, a)
                /\ settleOrder' = SettledIndices(servicePromises')
                /\ idx' = 1
                /\ pc' = "callForDomainBoolean"
                /\ UNCHANGED callOutcome

\* Resolution.owner(domain)
Owner(raw) ==
    /\ pc = "idle"
    /\ method' = "owner" /\ rawDomain' = raw
    /\ LET d == prepareAndValidateDomain(raw) IN callForDomain(d, "owner", <<d>>)
    /\ UNCHANGED <<serviceMap, hashVars, znsVars, configVars, errorVars, ensVars, other>>

\* Resolution.record(domain, recordKey)
Record(raw, recordKey) ==
    /\ pc = "idle"
    /\ method' = "record" /\ rawDomain' = raw
    /\ LET d == prepareAndValidateDomain(raw)
       IN  callForDomain(d, "record", <<d, recordKey>>)
    /\ UNCHANGED <<serviceMap, hashVars, znsVars, configVars, errorVars, ensVars, other>>

\* Resolution.isRegistered(domain)
IsRegistered(raw) ==
    /\ pc = "idle"
    /\ method' = "isRegistered" /\ rawDomain' = raw
    /\ LET d == prepareAndValidateDomain(raw)
       IN  callForDomainBoolean(d, "isRegistered", <<d>>,
                                [throwIfUnsupportedDomain |-> TRUE])
    /\ UNCHANGED <<serviceMap, hashVars, znsVars, configVars, errorVars, ensVars, other>>

\* Resolution.isAvailable(domain)
IsAvailable(raw) ==
    /\ pc = "idle"
    /\ method' = "isAvailable" /\ rawDomain' = raw
    /\ LET d == prepareAndValidateDomain(raw)
       IN  callForDomainBoolean(d, "isAvailable", <<d>>,
                                [throwIfUnsupportedDomain |-> TRUE])
    /\ UNCHANGED <<serviceMap, hashVars, znsVars, configVars, errorVars, ensVars, other>>

\* variant: isSupportedDomain asks for a throw on an unrouted domain
IsSupportedDomain_Throws(raw) ==
    /\ pc = "idle"
    /\ method' = "isSupportedDomain" /\ rawDomain' = raw
    /\ LET d == prepareAndValidateDomain(raw)
       IN  callForDomainBoolean(d, "isSupportedDomain", <<d>>,
                                [throwIfUnsupportedDomain |-> TRUE])
    /\ UNCHANGED <<serviceMap, hashVars, znsVars, configVars, errorVars, ensVars, other>>

\* Resolution.isSupportedDomain(domain)
IsSupportedDomain(raw) ==
    /\ pc = "idle"
    /\ method' = "isSupportedDomain" /\ rawDomain' = raw
    /\ LET d == prepareAndValidateDomain(raw)
       IN  callForDomainBoolean(d, "isSupportedDomain", <<d>>,
                                [throwIfUnsupportedDomain |-> FALSE])
    /\ UNCHANGED <<serviceMap, hashVars, znsVars, configVars, errorVars, ensVars, other>>

\* Resolution.registryAddress(domain)
RegistryAddress(raw) ==
    /\ pc = "idle"
    /\ method' = "registryAddress" /\ rawDomain' = raw
    /\ callForDomain(raw, "registryAddress", <<raw>>)
    /\ UNCHANGED <<serviceMap, hashVars, znsVars, configVars, errorVars, ensVars, other>>

\* Resolution.locations(domains), on a list of one domain
Locations(raw) ==
    /\ pc = "idle"
    /\ method' = "locations" /\ rawDomain' = raw
    /\ callForDomain(raw, "locations", <<raw>>)
    /\ UNCHANGED <<serviceMap, hashVars, znsVars, configVars, errorVars, ensVars, other>>

\* Resolution.tokenURI(domain): the namehash of the UNS native service, then
\* the dispatch of getTokenUri
TokenURI(raw) ==
    /\ pc = "idle"
    /\ method' = "tokenURI" /\ rawDomain' = raw
    /\ LET namehash == formatNamehash(
                          NativeNamehash(serviceMap[UNS].native,
                                         prepareAndValidateDomain(raw)),
                          NamehashOptionsDefault)
       IN  callForDomain(raw, "getTokenUri", <<namehash>>)
    /\ UNCHANGED <<serviceMap, hashVars, znsVars, configVars, errorVars, ensVars, other>>

\* Resolution.namehash(domain, namingService) with the default options; a
\* synchronous call, which ends where it started
ResolutionNamehash(raw, namingService) ==
    /\ pc = "idle"
    /\ method' = "namehash" /\ rawDomain' = raw
    /\ IF namingService \notin DOMAIN serviceMap
       THEN /\ Throw(ResolutionError("UnsupportedService", <<>>, 0))
            /\ UNCHANGED <<domain, hashVars>>
       ELSE LET service == serviceMap[namingService]
                d == prepareAndValidateDomain(raw)
                hash == NativeNamehash(service.native, d)
            IN  /\ domain' = d
                /\ hashIn' = [alg |-> NativeAlgorithm(service.native), parent |-> d,
                              label |-> <<>>, prefixed |-> TRUE]
                /\ formatted' = [hash |-> hash, options |-> NamehashOptionsDefault,
                                 out |-> formatNamehash(hash, NamehashOptionsDefault)]
                /\ pc' = "hashed"
                /\ UNCHANGED <<callOutcome, hashOut>>
    /\ UNCHANGED <<serviceMap, func, args, servicePromises, idx, settleOrder,
                   znsVars, configVars, errorVars, ensVars, other>>

\* the transport answers: the pending promise of backend i settles
BackendSettle(i) ==
    /\ i \in 1..Len(servicePromises)
    /\ servicePromises[i].state = "pending"
    /\ \E o \in BackendOutcomes(i, func, domain) :
          servicePromises' = [servicePromises EXCEPT ![i] = o]
    /\ settleOrder' = Append(settleOrder, i)
    /\ UNCHANGED <<serviceMap, pc, method, rawDomain, domain, func, args, idx,
                   callOutcome, hashVars, znsVars, configVars, errorVars, ensVars, other>>

\* variant: the loop takes whichever promise has settled (a race)
ResumeCallForDomain_Race ==
    /\ pc = "callForDomain"
    /\ \E i \in 1..Len(servicePromises) :
          /\ servicePromises[i].state = "settled"
          /\ LET serviceCallResult == servicePromises[i]
             IN  IF serviceCallResult.error # NullError
                 THEN IF ~IsUnregisteredDomain(serviceCallResult.error)
                      THEN Throw(serviceCallResult.error) /\ UNCHANGED idx
                      ELSE IF idx < Len(servicePromises)
                           THEN idx' = idx + 1 /\ UNCHANGED <<pc, callOutcome>>
                           ELSE /\ Throw(ResolutionError(UnregisteredDomain, domain, 0))
                                /\ UNCHANGED idx
                 ELSE Return(serviceCallResult.result) /\ UNCHANGED idx
    /\ UNCHANGED <<serviceMap, method, rawDomain, domain, func, args, servicePromises,
                   settleOrder, hashVars, znsVars, configVars, errorVars, ensVars, other>>

\* variant: an exhausted list returns null instead of throwing
ResumeCallForDomain_ReturnsNull ==
    /\ pc = "callForDomain"
    /\ servicePromises[idx].state = "settled"
    /\ LET serviceCallResult == servicePromises[idx]
       IN  IF serviceCallResult.error # NullError
           THEN IF ~IsUnregisteredDomain(serviceCallResult.error)
                THEN Throw(serviceCallResult.error) /\ UNCHANGED idx
                ELSE IF idx < Len(servicePromises)
                     THEN idx' = idx + 1 /\ UNCHANGED <<pc, callOutcome>>
                     ELSE Return(NullResult) /\ UNCHANGED idx
           ELSE Return(serviceCallResult.result) /\ UNCHANGED idx
    /\ UNCHANGED <<serviceMap, method, rawDomain, domain, func, args, servicePromises,
                   settleOrder, hashVars, znsVars, configVars, errorVars, ensVars, other>>

\* variant: a backend whose call failed is taken out of the list of its
\* naming service
ResumeCallForDomain_DropsFailedService ==
    /\ pc = "callForDomain"
    /\ servicePromises[idx].state = "settled"
    /\ LET serviceCallResult == servicePromises[idx]
           serviceName == findNamingServiceName(domain)
       IN  IF serviceCallResult.error # NullError
           THEN IF ~IsUnregisteredDomain(serviceCallResult.error)
                THEN /\ Throw(serviceCallResult.error)
                     /\ serviceMap' =
                           [serviceMap EXCEPT ![serviceName].usedServices =
                               SelectSeq(@, LAMBDA service :
                                   service # serviceMap[serviceName].usedServices[idx])]
                     /\ UNCHANGED idx
                ELSE /\ IF idx < Len(servicePromises)
                        THEN idx' = idx + 1 /\ UNCHANGED <<pc, callOutcome>>
                        ELSE /\ Throw(ResolutionError(UnregisteredDomain, domain, 0))
                             /\ UNCHANGED idx
                     /\ UNCHANGED serviceMap
           ELSE Return(serviceCallResult.result) /\ UNCHANGED <<idx, serviceMap>>
    /\ UNCHANGED <<method, rawDomain, domain, func, args, servicePromises,
                   settleOrder, hashVars, znsVars, configVars, errorVars, ensVars, other>>

\* one iteration of the for-await loop of callForDomain, and the throw after it
ResumeCallForDomain ==
    /\ pc = "callForDomain"
    /\ servicePromises[idx].state = "settled"
    /\ LET serviceCallResult == servicePromises[idx]
       IN  IF serviceCallResult.error # NullError
           THEN IF ~IsUnregisteredDomain(serviceCallResult.error)
                THEN Throw(serviceCallResult.error) /\ UNCHANGED idx
                ELSE IF idx < Len(servicePromises)
                     THEN idx' = idx + 1 /\ UNCHANGED <<pc, callOutcome>>
                     ELSE /\ Throw(ResolutionError(UnregisteredDomain, domain, 0))
                          /\ UNCHANGED idx
           ELSE Return(serviceCallResult.result) /\ UNCHANGED idx
    /\ UNCHANGED <<serviceMap, method, rawDomain, domain, func, args, servicePromises,
                   settleOrder, hashVars, znsVars, configVars, errorVars, ensVars, other>>

\* variant: the first result is returned even when it is false
ResumeCallForDomainBoolean_FirstResult ==
    /\ pc = "callForDomainBoolean"
    /\ servicePromises[idx].state = "settled"
    /\ LET result == servicePromises[idx].result
           error == servicePromises[idx].error
       IN  IF error # NullError /\ ~IsUnregisteredDomain(error)
           THEN Throw(error) /\ UNCHANGED idx
           ELSE IF error = NullError
                THEN Return(result) /\ UNCHANGED idx
                ELSE IF idx < Len(servicePromises)
                     THEN idx' = idx + 1 /\ UNCHANGED <<pc, callOutcome>>
                     ELSE Return("false") /\ UNCHANGED idx
    /\ UNCHANGED <<serviceMap, method, rawDomain, domain, func, args, servicePromises,
                   settleOrder, hashVars, znsVars, configVars, errorVars, ensVars, other>>

\* variant: every backend error is skipped like UnregisteredDomain
ResumeCallForDomainBoolean_SkipsErrors ==
    /\ pc = "callForDomainBoolean"
    /\ servicePromises[idx].state = "settled"
    /\ LET result == servicePromises[idx].result
           error == servicePromises[idx].error
       IN  IF error = NullError /\ Truthy(result)
           THEN Return(result) /\ UNCHANGED idx
           ELSE IF idx < Len(servicePromises)
                THEN idx' = idx + 1 /\ UNCHANGED <<pc, callOutcome>>
                ELSE Return("false") /\ UNCHANGED idx
    /\ UNCHANGED <<serviceMap, method, rawDomain, domain, func, args, servicePromises,
                   settleOrder, hashVars, znsVars, configVars, errorVars, ensVars, other>>

\* one iteration of the for-await loop of callForDomainBoolean, and the
\* return after it
ResumeCallForDomainBoolean ==
    /\ pc = "callForDomainBoolean"
    /\ servicePromises[idx].state = "settled"
    /\ LET result == servicePromises[idx].result
           error == servicePromises[idx].error
       IN  IF error # NullError /\ ~IsUnregisteredDomain(error)
           THEN Throw(error) /\ UNCHANGED idx
           ELSE IF error = NullError /\ Truthy(result)
                THEN Return(result) /\ UNCHANGED idx
                ELSE IF idx < Len(servicePromises)
                     THEN idx' = idx + 1 /\ UNCHANGED <<pc, callOutcome>>
                     ELSE Return("false") /\ UNCHANGED idx
    /\ UNCHANGED <<serviceMap, method, rawDomain, domain, func, args, servicePromises,
                   settleOrder, hashVars, znsVars, configVars, errorVars, ensVars, other>>

RecordKeys == {<<"k">>}

\* the local variables of an orchestrator call, as they are kept while the
\* call is suspended at an await
CallFrame ==
    [pc |-> pc, method |-> method, rawDomain |-> rawDomain, domain |-> domain,
     func |-> func, args |-> args, servicePromises |-> servicePromises,
     idx |-> idx, settleOrder |-> settleOrder, callOutcome |-> callOutcome]

\* a call that was not started yet
IdleCall ==
    [pc |-> "idle", method |-> "none", rawDomain |-> <<>>, domain |-> <<>>,
     func |-> "none", args |-> <<>>, servicePromises |-> <<>>,
     idx |-> 0, settleOrder |-> <<>>, callOutcome |-> NoOutcome]

\* the event loop runs the other call of the instance: every state between
\* two actions is an await of the running call, its start or its end; the
\* calls share the instance and nothing else
Switch ==
    /\ other.pc # "none"
    /\ other' = CallFrame
    /\ pc' = other.pc /\ method' = other.method /\ rawDomain' = other.rawDomain
    /\ domain' = other.domain /\ func' = other.func /\ args' = other.args
    /\ servicePromises' = other.servicePromises /\ idx' = other.idx
    /\ settleOrder' = other.settleOrder /\ callOutcome' = other.callOutcome
    /\ UNCHANGED <<serviceMap, hashVars, znsVars, configVars, errorVars, ensVars>>

\* the domains of the interleaved calls
InterleavedDomains == {<<"b", ".">> \o StrZil, <<"b", ".">> \o StrCrypto}

----------------------------------------------------------------------------
(* The Zilliqa backend (Zns) and the currency lookup of Resolution *)

MaxRecords == 2

JsNull == <<"null">>
JsUndefined == <<"undefined">>

\* !value for a string, null or undefined
Falsy(value) == value \in {<<>>, JsNull, JsUndefined}

StartsWith(str, prefix) ==
    Len(str) >= Len(prefix) /\ SubSeq(str, 1, Len(prefix)) = prefix

StrAddress == <<"a", "d", "d", "r", "e", "s", "s">>
StrBTC == <<"B", "T", "C">>
StrETH == <<"E", "T", "H">>

\* the null address, scaled down to one digit
NullAddress == <<"0", "x", "0">>
NullAddresses == {<<"0", "x">>, NullAddress}

\* toBech32Address(address): the zil1 encoding of the same account
toBech32Address(address) == <<"z", "i", "l", "1">> \o SubSeq(address, 3, Len(address))

\* isNullAddress(key)
isNullAddress(key) ==
    IF Falsy(key) THEN TRUE ELSE key \in NullAddresses

\* Zns.isSupportedDomain(domain)
ZnsIsSupportedDomain(d) ==
    LET tokens == Split(d, Dot)
    IN  /\ Len(tokens) # 0
        /\ tokens[Len(tokens)] = StrZil
        /\ \A i \in 1..Len(tokens) : Len(tokens[i]) # 0

\* Zns.isSupportedNetwork()
ZnsIsSupportedNetwork == chain.registryAddress # JsUndefined

\* the transport answered: no error message
NoFailure == <<>>

\* the error the transport collaborator throws, as the backends see it
TransportError(origin) == PlainError("TransportError", origin)

\* Zns.fetchSubState through getContractField: provider.request is awaited
\* without a try/catch, so what the transport throws leaves the method that
\* asked; every method of Zns reads the registry first, and only for a
\* supported domain on a supported network
fetchSubState(d, outcome, origin) ==
    IF ZnsIsSupportedDomain(d) /\ ZnsIsSupportedNetwork /\ chain.transport # NoFailure
    THEN Rejected(TransportError(origin))
    ELSE outcome

\* Zns.getRecordsAddresses(domain): undefined, or <<ownerAddress, resolverAddress>>
getRecordsAddresses(d) ==
    IF ~ZnsIsSupportedDomain(d) \/ ~ZnsIsSupportedNetwork THEN JsUndefined
    ELSE LET registryRecord == chain.registryRecord
         IN  IF ~registryRecord.present THEN JsUndefined
             ELSE LET ownerAddress == registryRecord.arguments[1]
                      resolverAddress == registryRecord.arguments[2]
                  IN  <<IF StartsWith(ownerAddress, <<"0", "x">>)
                        THEN toBech32Address(ownerAddress) ELSE ownerAddress,
                        resolverAddress>>

\* Zns.getResolverRecords(resolverAddress): the flat records, in key order
getResolverRecords(resolverAddress) ==
    IF isNullAddress(resolverAddress) THEN <<>> ELSE chain.resolverRecords

\* records[field] of a flat record set
RecordValue(records, field) ==
    IF \E i \in 1..Len(records) : records[i][1] = field
    THEN records[CHOOSE i \in 1..Len(records) : records[i][1] = field][2]
    ELSE JsUndefined

\* a nested object and a string leaf of a structured record set
Obj(fields) == [t |-> "object", f |-> fields]
Leaf(value) == [t |-> "string", f |-> value]
EmptyObj == Obj(<<>>)

RECURSIVE SetPath(_, _, _)
\* the walk of set() over the tokens of a key
SetPath(current, tokens, value) ==
    IF Len(tokens) = 1
    THEN Obj((tokens[1] :> Leaf(value)) @@ current.f)
    ELSE LET token == Head(tokens)
             child == IF token \in DOMAIN current.f /\ current.f[token].t = "object"
                      THEN current.f[token] ELSE EmptyObj
         IN  Obj((token :> SetPath(child, Tail(tokens), value)) @@ current.f)

\* set(object, key, value)
set(object, key, value) == SetPath(object, Split(key, Dot), value)

RECURSIVE StructureFrom(_, _)
StructureFrom(result, records) ==
    IF records = <<>> THEN result
    ELSE StructureFrom(set(result, Head(records)[1], Head(records)[2]), Tail(records))

\* Zns.structureResolverRecords(records)
structureResolverRecords(records) == StructureFrom(EmptyObj, records)

\* v.address of an entry of resolution.crypto
AddressOf(v) ==
    IF v.t = "object" /\ StrAddress \in DOMAIN v.f
    THEN (IF v.f[StrAddress].t = "string" THEN v.f[StrAddress].f ELSE <<"[object]">>)
    ELSE JsUndefined

\* the response for a domain without a registry record
UnclaimedDomainResponse == [addresses |-> <<>>, owner |-> JsNull]

\* Zns.resolve(domain)
ZnsResolve(d) ==
    LET recordAddresses == getRecordsAddresses(d)
    IN  IF recordAddresses = JsUndefined THEN UnclaimedDomainResponse
        ELSE LET ownerAddress == recordAddresses[1]
                 resolverAddress == recordAddresses[2]
                 resolution == structureResolverRecords(getResolverRecords(resolverAddress))
                 crypto == IF StrCrypto \in DOMAIN resolution.f
                              /\ resolution.f[StrCrypto].t = "object"
                           THEN resolution.f[StrCrypto].f ELSE <<>>
                 keys == {key \in DOMAIN crypto : ~Falsy(AddressOf(crypto[key]))}
             IN  [addresses |-> [key \in keys |-> AddressOf(crypto[key])],
                  owner |-> IF Falsy(ownerAddress) THEN JsNull ELSE ownerAddress]

\* Zns.address(domain, currencyTicker)
ZnsAddress(d, currencyTicker, origin) ==
    LET data == ZnsResolve(d)
    IN  fetchSubState(d,
          IF isNullAddress(data.owner)
          THEN Rejected(ResolutionError(UnregisteredDomain, d, origin))
          ELSE IF ToUpperCase(currencyTicker) \notin DOMAIN data.addresses
               THEN Rejected(ResolutionError(UnspecifiedCurrency, d, origin))
               ELSE Fulfilled(data.addresses[ToUpperCase(currencyTicker)]),
          origin)

\* variant: the owner is taken without looking at the registry answer
ZnsOwner_Throws(d, origin) ==
    fetchSubState(d,
      IF getRecordsAddresses(d) = JsUndefined
      THEN Rejected(ResolutionError(UnregisteredDomain, d, origin))
      ELSE Fulfilled(ZnsResolve(d).owner),
      origin)

\* Zns.owner(domain): data ? data.meta.owner : null
ZnsOwner(d, origin) ==
    fetchSubState(d, Fulfilled(ZnsResolve(d).owner), origin)

\* variant: the resolver address is looked at before the owner
ZnsResolver_ResolverFirst(d, origin) ==
    LET recordsAddresses == getRecordsAddresses(d)
    IN  fetchSubState(d,
          IF recordsAddresses = JsUndefined
          THEN Rejected(ResolutionError(UnregisteredDomain, d, origin))
          ELSE IF isNullAddress(recordsAddresses[2])
               THEN Rejected(ResolutionError(UnspecifiedResolver, d, origin))
               ELSE IF Falsy(recordsAddresses[1])
                    THEN Rejected(ResolutionError(UnregisteredDomain, d, origin))
                    ELSE Fulfilled(recordsAddresses[2]),
          origin)

\* Zns.resolver(domain)
ZnsResolver(d, origin) ==
    LET recordsAddresses == getRecordsAddresses(d)
    IN  fetchSubState(d,
          IF recordsAddresses = JsUndefined \/ Falsy(recordsAddresses[1])
          THEN Rejected(ResolutionError(UnregisteredDomain, d, origin))
          ELSE LET resolverAddress == recordsAddresses[2]
               IN  IF isNullAddress(resolverAddress)
                   THEN Rejected(ResolutionError(UnspecifiedResolver, d, origin))
                   ELSE Fulfilled(resolverAddress),
          origin)

\* Zns.resolverAddress(domain)
ZnsResolverAddress(d) ==
    LET recordsAddresses == getRecordsAddresses(d)
    IN  IF recordsAddresses = JsUndefined THEN JsUndefined ELSE recordsAddresses[2]

\* NamingService.ensureRecordPresence(domain, key, value)
ensureRecordPresence(d, key, value, origin) ==
    IF ~Falsy(value) THEN Fulfilled(value)
    ELSE Rejected(ResolutionError(RecordNotFound, d, origin))

\* Zns.record(domain, field) through getRecordOrThrow and records
ZnsRecord(d, field, origin) ==
    LET records == getResolverRecords(ZnsResolverAddress(d))
    IN  fetchSubState(d,
          ensureRecordPresence(d, field, RecordValue(records, field), origin),
          origin)

RECURSIVE callForDomainLoop(_, _)
\* the for-await loop of callForDomain over wrapped results that have settled
callForDomainLoop(results, d) ==
    IF results = <<>> THEN Rejected(ResolutionError(UnregisteredDomain, d, 0))
    ELSE LET serviceCallResult == Head(results)
         IN  IF serviceCallResult.error # NullError
             THEN IF ~IsUnregisteredDomain(serviceCallResult.error)
                  THEN Rejected(serviceCallResult.error)
                  ELSE callForDomainLoop(Tail(results), d)
             ELSE Fulfilled(serviceCallResult.result)

\* callForDomain(domain, 'record', [domain, recordKey]) run to its end
callForDomainRecord(d, recordKey) ==
    LET serviceName == findNamingServiceName(d)
    IN  IF serviceName = NoService
        THEN Rejected(ResolutionError(UnsupportedDomain, d, 0))
        ELSE LET services == serviceMap[serviceName].usedServices
                 results == [i \in 1..Len(services) |->
                               IF services[i].class = "Zns"
                               THEN ZnsRecord(d, recordKey, i)
                               ELSE chain.unsRecord]
             IN  callForDomainLoop(results, d)

\* callForDomain(domain, 'owner', [domain]) run to its end
callForDomainOwner(d) ==
    LET serviceName == findNamingServiceName(d)
    IN  IF serviceName = NoService
        THEN Rejected(ResolutionError(UnsupportedDomain, d, 0))
        ELSE LET services == serviceMap[serviceName].usedServices
                 results == [i \in 1..Len(services) |->
                               IF services[i].class = "Zns"
                               THEN ZnsOwner(d, i)
                               ELSE chain.unsRecord]
             IN  callForDomainLoop(results, d)

\* Resolution.owner(domain)
ResolutionOwner(raw) == callForDomainOwner(prepareAndValidateDomain(raw))

\* Zns.records(domain): the flat record set of the domain's resolver
ZnsRecords(d, origin) ==
    fetchSubState(d, Fulfilled(getResolverRecords(ZnsResolverAddress(d))), origin)

\* callForDomain(domain, 'records', [domain, keys]) run to its end
callForDomainRecords(d) ==
    LET serviceName == findNamingServiceName(d)
    IN  IF serviceName = NoService
        THEN Rejected(ResolutionError(UnsupportedDomain, d, 0))
        ELSE LET services == serviceMap[serviceName].usedServices
                 results == [i \in 1..Len(services) |->
                               IF services[i].class = "Zns"
                               THEN ZnsRecords(d, i)
                               ELSE chain.unsRecord]
             IN  callForDomainLoop(results, d)

\* variant: the old key is preferred to the new one
getPreferableNewRecord_OldFirst(d, newRecord, oldRecord) ==
    LET outcome == callForDomainRecords(d)
    IN  IF outcome.error # NullError THEN outcome
        ELSE LET records == outcome.result
             IN  IF Falsy(RecordValue(records, newRecord))
                    /\ Falsy(RecordValue(records, oldRecord))
                 THEN Rejected(ResolutionError(RecordNotFound, d, 0))
                 ELSE Fulfilled(IF ~Falsy(RecordValue(records, oldRecord))
                                THEN RecordValue(records, oldRecord)
                                ELSE RecordValue(records, newRecord))

\* Resolution.getPreferableNewRecord(domain, newRecord, oldRecord)
getPreferableNewRecord(d, newRecord, oldRecord) ==
    LET outcome == callForDomainRecords(d)
    IN  IF outcome.error # NullError THEN outcome
        ELSE LET records == outcome.result
             IN  IF Falsy(RecordValue(records, newRecord))
                    /\ Falsy(RecordValue(records, oldRecord))
                 THEN Rejected(ResolutionError(RecordNotFound, d, 0))
                 ELSE Fulfilled(IF ~Falsy(RecordValue(records, newRecord))
                                THEN RecordValue(records, newRecord)
                                ELSE RecordValue(records, oldRecord))

DwebIpfsHash == <<"d", "w", "e", "b", ".", "i", "p", "f", "s", ".", "h", "a", "s", "h">>
IpfsHtmlValue == <<"i", "p", "f", "s", ".", "h", "t", "m", "l", ".", "v", "a", "l", "u", "e">>
BrowserRedirectUrl == <<"b", "r", "o", "w", "s", "e", "r", ".", "r", "e", "d", "i", "r", "e", "c", "t", "_", "u", "r", "l">>
IpfsRedirectDomainValue == <<"i", "p", "f", "s", ".", "r", "e", "d", "i", "r", "e", "c", "t", "_", "d", "o", "m", "a", "i", "n", ".", "v", "a", "l", "u", "e">>

\* Resolution.ipfsHash(domain)
ResolutionIpfsHash(raw) ==
    getPreferableNewRecord(prepareAndValidateDomain(raw), DwebIpfsHash, IpfsHtmlValue)

\* Resolution.httpUrl(domain)
ResolutionHttpUrl(raw) ==
    getPreferableNewRecord(prepareAndValidateDomain(raw),
                           BrowserRedirectUrl, IpfsRedirectDomainValue)

\* Resolution.record(domain, recordKey)
ResolutionRecord(raw, recordKey) ==
    callForDomainRecord(prepareAndValidateDomain(raw), recordKey)

\* Resolution.addr(domain, ticker)
ResolutionAddr(raw, ticker) ==
    LET recordKey == StrCrypto \o <<Dot>> \o ToUpperCase(ticker) \o <<Dot>> \o StrAddress
    IN  callForDomainRecord(prepareAndValidateDomain(raw), recordKey)

Respond(op, outcome) ==
    /\ response.op = "none"
    /\ request.domain # <<>>
    /\ response' = [op |-> op,
                    result |-> IF outcome.error = NullError THEN outcome.result ELSE JsNull,
                    error |-> outcome.error]
    /\ UNCHANGED <<dispatchVars, hashVars, chain, request, resolved, configVars, errorVars, ensVars, other>>

\* a caller runs Zns.address on the requested domain and ticker
CallZnsAddress == Respond("Zns.address", ZnsAddress(request.domain, request.ticker, 2))

\* a caller runs Resolution.addr on the requested domain and ticker
CallResolutionAddr ==
    Respond("Resolution.addr", ResolutionAddr(request.domain, request.ticker))

\* a caller runs Zns.owner on the requested domain
CallZnsOwner == Respond("Zns.owner", ZnsOwner(request.domain, 2))

\* a caller runs Resolution.owner on the requested domain
CallResolutionOwner == Respond("Resolution.owner", ResolutionOwner(request.domain))

\* a caller runs Zns.resolver on the requested domain
CallZnsResolver == Respond("Zns.resolver", ZnsResolver(request.domain, 2))

\* Zns.resolution(domain): the structured records of the domain's resolver
ZnsResolution(d) ==
    structureResolverRecords(getResolverRecords(ZnsResolverAddress(d)))

\* a caller runs Zns.resolution on the requested domain
CallZnsResolution ==
    /\ request.domain # <<>>
    /\ ~resolved.structured
    /\ fetchSubState(request.domain, Fulfilled(<<>>), 2).error = NullError
    /\ resolved' = [resolved EXCEPT !.structured = TRUE,
                                    !.resolution = ZnsResolution(request.domain)]
    /\ UNCHANGED <<dispatchVars, hashVars, chain, request, response, configVars, errorVars, ensVars, other>>

\* a caller runs Zns.resolve on the requested domain and keeps its addresses
CallZnsResolve ==
    /\ request.domain # <<>>
    /\ ~resolved.extracted
    /\ fetchSubState(request.domain, Fulfilled(<<>>), 2).error = NullError
    /\ resolved' = [resolved EXCEPT !.extracted = TRUE,
                                    !.addresses = ZnsResolve(request.domain).addresses]
    /\ UNCHANGED <<dispatchVars, hashVars, chain, request, response, configVars, errorVars, ensVars, other>>

\* a caller runs Resolution.record on the requested domain and key
CallResolutionRecord ==
    Respond("Resolution.record", ResolutionRecord(request.domain, request.key))

\* a caller runs Resolution.ipfsHash on the requested domain
CallResolutionIpfsHash ==
    Respond("Resolution.ipfsHash", ResolutionIpfsHash(request.domain))

\* a caller runs Resolution.httpUrl on the requested domain
CallResolutionHttpUrl ==
    Respond("Resolution.httpUrl", ResolutionHttpUrl(request.domain))

\* message.match(pattern) for a literal pattern: the pattern occurs in the
\* message (messages are sequences of words)
Matches(message, pattern) ==
    \E i \in 0..(Len(message) - Len(pattern)) :
        SubSeq(message, i + 1, i + Len(pattern)) = pattern

InvalidJsonRpcResponse == <<"Invalid", "JSON", "RPC", "response">>

\* Ens.callMethod(method): the contract read through the transport
EnsCallMethod(origin) ==
    IF chain.transport = NoFailure THEN Fulfilled(<<"v">>)
    ELSE IF Matches(chain.transport, InvalidJsonRpcResponse)
         THEN Rejected(ResolutionError(NamingServiceDown, <<>>, origin))
         ELSE Rejected(TransportError(origin))

\* a caller runs a contract read of the Ethereum-style backend
CallEnsCallMethod == Respond("Ens.callMethod", EnsCallMethod(1))

RecordKeyPool ==
    { StrCrypto \o <<Dot>> \o StrBTC \o <<Dot>> \o StrAddress,
      StrCrypto \o <<Dot>> \o StrETH \o <<Dot>> \o StrAddress,
      StrCrypto \o <<Dot>> \o StrBTC }

RecordValuePool == {<<>>, <<"v">>}

\* flat record sets: at most MaxRecords entries with distinct keys, in any order
RecordSets ==
    UNION {{rs \in [1..n -> RecordKeyPool \X RecordValuePool] :
              \A i, j \in 1..n : i # j => rs[i][1] # rs[j][1]} : n \in 0..MaxRecords}

RegistryRecords ==
    {[present |-> FALSE, arguments |-> <<<<>>, <<>>>>]}
      \cup [present : {TRUE},
            arguments : {<<>>, NullAddress, <<"0", "x", "1">>, <<"z", "i", "l", "1", "1">>}
                          \X {<<>>, NullAddress, <<"0", "x", "2">>,
                              <<"z", "i", "l", "1", "2">>}]

\* what the transport throws: nothing, or an error with one of these messages
TransportMessages ==
    {NoFailure, <<"Error:">> \o InvalidJsonRpcResponse, <<"timeout">>}

Chains ==
    [registryAddress : {<<"z", "i", "l", "1", "r">>, JsUndefined},
     registryRecord : RegistryRecords,
     resolverRecords : RecordSets,
     transport : TransportMessages,
     unsRecord : {Rejected(ResolutionError(UnregisteredDomain, <<>>, 1)),
                  Rejected(ResolutionError(NamingServiceDown, <<>>, 1))}]

Requests ==
    [domain : {<<"b", ".">> \o StrZil, <<".">> \o StrZil, <<"b", ".">> \o StrCrypto},
     ticker : {<<"b", "t", "c">>, StrETH},
     key : {<<>>}]

\* the record keys a lookup asks for and a resolver holds
LookupKeyPool ==
    {DwebIpfsHash, IpfsHtmlValue, BrowserRedirectUrl, IpfsRedirectDomainValue}

LookupValuePool == {<<>>, <<"n">>, <<"o">>}

LookupRecordSets ==
    UNION {{rs \in [1..n -> LookupKeyPool \X LookupValuePool] :
              \A i, j \in 1..n : i # j => rs[i][1] # rs[j][1]} : n \in 0..MaxRecords}

\* record keys of a resolver: currency addresses, a key that is a dotted
\* prefix of one of them and a key that extends one of them
CodecKeyPool ==
    RecordKeyPool \cup {StrCrypto \o <<Dot>> \o StrBTC \o <<Dot>> \o StrAddress \o <<Dot, "x">>}

CodecValuePool == {<<>>, <<"v">>, <<"w">>}

CodecRecordSets ==
    UNION {{rs \in [1..n -> CodecKeyPool \X CodecValuePool] :
              \A i, j \in 1..n : i # j => rs[i][1] # rs[j][1]} : n \in 0..MaxRecords}

CodecChains ==
    [registryAddress : {<<"z", "i", "l", "1", "r">>},
     registryRecord : {[present |-> TRUE,
                        arguments |-> <<<<"z", "i", "l", "1", "1">>, <<"0", "x", "2">>>>]},
     resolverRecords : CodecRecordSets,
     transport : {NoFailure},
     unsRecord : {Rejected(ResolutionError(UnregisteredDomain, <<>>, 1))}]

LookupChains ==
    [registryAddress : {<<"z", "i", "l", "1", "r">>},
     registryRecord : {[present |-> FALSE, arguments |-> <<<<>>, <<>>>>],
                       [present |-> TRUE,
                        arguments |-> <<<<"z", "i", "l", "1", "1">>, <<"0", "x", "2">>>>]},
     resolverRecords : LookupRecordSets,
     transport : {NoFailure},
     unsRecord : {Rejected(ResolutionError(UnregisteredDomain, <<>>, 1)),
                  Rejected(ResolutionError(NamingServiceDown, <<>>, 1))}]

LookupRequests ==
    [domain : {<<"b", ".">> \o StrZil},
     ticker : {<<>>},
     key : {DwebIpfsHash, IpfsHtmlValue}]

----------------------------------------------------------------------------
(* Backend configuration: normalizeSource and the constructors *)

\* JavaScript values of a source definition, each with its typeof
Undefined == [type |-> "undefined", v |-> <<>>]
False == [type |-> "boolean", v |-> <<"f", "a", "l", "s", "e">>]
Num(digits) == [type |-> "number", v |-> digits]
Str(chars) == [type |-> "string", v |-> chars]
ProviderObject == [type |-> "object", v |-> <<"p">>]

\* !!value
IsTruthy(value) ==
    \/ value.type = "object"
    \/ value.type = "string" /\ value.v # <<>>
    \/ value.type = "number" /\ value.v # <<"0">>

\* table[key] of an object literal: the value, or undefined
Lookup(table, key) ==
    IF \E e \in table : e[1] = key
    THEN (CHOOSE e \in table : e[1] = key)[2]
    ELSE Undefined

StrMainnet == <<"m", "a", "i", "n", "n", "e", "t">>
StrTestnet == <<"t", "e", "s", "t", "n", "e", "t">>
StrLocalnet == <<"l", "o", "c", "a", "l", "n", "e", "t">>
StrRopsten == <<"r", "o", "p", "s", "t", "e", "n">>
StrKovan == <<"k", "o", "v", "a", "n">>
StrRinkeby == <<"r", "i", "n", "k", "e", "b", "y">>
StrGoerli == <<"g", "o", "e", "r", "l", "i">>

\* NetworkIdMap, RegistryMap and UrlMap of Zns, keyed by network id
ZnsNetworkIdMap ==
    {<<StrMainnet, Num(<<"1">>)>>,
     <<StrTestnet, Num(<<"3", "3", "3">>)>>,
     <<StrLocalnet, Num(<<"1", "1", "1">>)>>}

ZnsRegistryMap ==
    {<<<<"1">>, Str(<<"z", "i", "l", "1", "j", "c", "g", "u", "2", "w", "l", "x", "6", "x", "e", "j", "q", "k", "9", "j", "w", "3", "a", "a", "a", "n", "k", "w", "6", "l", "s", "j", "z", "e", "u", "n", "x", "2", "j", "0", "j", "z">>)>>}

ZnsUrlMap ==
    {<<<<"1">>, Str(<<"h", "t", "t", "p", "s", ":", "/", "/", "a", "p", "i", ".", "z", "i", "l", "l", "i", "q", "a", ".", "c", "o", "m">>)>>,
     <<<<"3", "3", "3">>, Str(<<"h", "t", "t", "p", "s", ":", "/", "/", "d", "e", "v", "-", "a", "p", "i", ".", "z", "i", "l", "l", "i", "q", "a", ".", "c", "o", "m">>)>>,
     <<<<"1", "1", "1">>, Str(<<"h", "t", "t", "p", ":", "/", "/", "l", "o", "c", "a", "l", "h", "o", "s", "t", ":", "4", "2", "0", "1">>)>>}

\* UrlNetworkMap[source.url]: UrlNetworkMap is a function, and indexing it
\* reads a property of the function object, which no url names
UrlNetworkMap(url) == Undefined

\* variant: a registry supplied in 0x form is kept as supplied
ZnsNormalizeSource_KeepsHex(src) ==
    LET network == IF src.network.type = "string"
                   THEN Lookup(ZnsNetworkIdMap, src.network.v)
                   ELSE IF IsTruthy(src.network) THEN src.network
                   ELSE Num(<<"1">>)
        url == IF ~IsTruthy(src.provider) /\ ~IsTruthy(src.url)
               THEN (IF network.type = "number" THEN Lookup(ZnsUrlMap, network.v)
                     ELSE Undefined)
               ELSE src.url
    IN  [network |-> network, url |-> url, provider |-> src.provider,
         registry |-> IF IsTruthy(src.registry) THEN src.registry
                      ELSE Lookup(ZnsRegistryMap, network.v)]

\* variant: the url is defaulted whenever none was supplied
ZnsNormalizeSource_IgnoresProvider(src) ==
    LET network == IF src.network.type = "string"
                   THEN Lookup(ZnsNetworkIdMap, src.network.v)
                   ELSE IF IsTruthy(src.network) THEN src.network
                   ELSE Num(<<"1">>)
        url == IF ~IsTruthy(src.url)
               THEN (IF network.type = "number" THEN Lookup(ZnsUrlMap, network.v)
                     ELSE Undefined)
               ELSE src.url
        registry == IF IsTruthy(src.registry) THEN src.registry
                    ELSE Lookup(ZnsRegistryMap, network.v)
    IN  [network |-> network, url |-> url, provider |-> src.provider,
         registry |-> IF registry.type = "string" /\ StartsWith(registry.v, <<"0", "x">>)
                      THEN Str(toBech32Address(registry.v)) ELSE registry]

\* Zns.normalizeSource(source), networks as ids
ZnsNormalizeSource(src) ==
    LET network == IF src.network.type = "string"
                   THEN Lookup(ZnsNetworkIdMap, src.network.v)
                   ELSE IF IsTruthy(src.network) THEN src.network
                   ELSE IF IsTruthy(src.url) /\ IsTruthy(UrlNetworkMap(src.url))
                        THEN UrlNetworkMap(src.url)
                        ELSE Num(<<"1">>)
        url == IF ~IsTruthy(src.provider) /\ ~IsTruthy(src.url)
               THEN (IF network.type = "number" THEN Lookup(ZnsUrlMap, network.v)
                     ELSE Undefined)
               ELSE src.url
        registry == IF IsTruthy(src.registry) THEN src.registry
                    ELSE Lookup(ZnsRegistryMap, network.v)
    IN  [network |-> network, url |-> url, provider |-> src.provider,
         registry |-> IF registry.type = "string" /\ StartsWith(registry.v, <<"0", "x">>)
                      THEN Str(toBech32Address(registry.v)) ELSE registry]

\* NetworkIdMap, RegistryMap and UrlMap of Zns, keyed by network name
ZnsNamedNetworkIdMap ==
    {<<<<"1">>, Str(StrMainnet)>>,
     <<<<"3", "3", "3">>, Str(StrTestnet)>>,
     <<<<"1", "1", "1">>, Str(StrLocalnet)>>}

ZnsNamedRegistryMap ==
    {<<StrMainnet, Str(<<"z", "i", "l", "1", "j", "c", "g", "u", "2", "w", "l", "x", "6", "x", "e", "j", "q", "k", "9", "j", "w", "3", "a", "a", "a", "n", "k", "w", "6", "l", "s", "j", "z", "e", "u", "n", "x", "2", "j", "0", "j", "z">>)>>}

ZnsNamedUrlMap ==
    {<<StrMainnet, Str(<<"h", "t", "t", "p", "s", ":", "/", "/", "a", "p", "i", ".", "z", "i", "l", "l", "i", "q", "a", ".", "c", "o", "m">>)>>,
     <<StrTestnet, Str(<<"h", "t", "t", "p", "s", ":", "/", "/", "d", "e", "v", "-", "a", "p", "i", ".", "z", "i", "l", "l", "i", "q", "a", ".", "c", "o", "m">>)>>,
     <<StrLocalnet, Str(<<"h", "t", "t", "p", ":", "/", "/", "l", "o", "c", "a", "l", "h", "o", "s", "t", ":", "4", "2", "0", "1">>)>>}

\* Zns.normalizeSource(source), networks as names
ZnsNamedNormalizeSource(src) ==
    LET mapped == IF src.network.type = "number"
                  THEN (IF IsTruthy(Lookup(ZnsNamedNetworkIdMap, src.network.v))
                        THEN Lookup(ZnsNamedNetworkIdMap, src.network.v)
                        ELSE src.network)
                  ELSE src.network
        network == IF IsTruthy(mapped) THEN mapped
                   ELSE IF IsTruthy(src.url) /\ IsTruthy(UrlNetworkMap(src.url))
                        THEN UrlNetworkMap(src.url)
                        ELSE Str(StrMainnet)
        url == IF ~IsTruthy(src.provider)
               THEN (IF IsTruthy(src.url) THEN src.url
                     ELSE IF network.type = "string"
                          THEN Lookup(ZnsNamedUrlMap, network.v)
                          ELSE False)
               ELSE src.url
    IN  [network |-> network, url |-> url, provider |-> src.provider,
         registry |-> src.registry]

\* the backend object a constructor leaves behind, or the error it throws
Constructed(class, source, registry) ==
    [state |-> "constructed", class |-> class, network |-> source.network,
     url |-> source.url, provider |-> source.provider, registry |-> registry,
     error |-> "none", calls |-> 0]

Failed(class, source, error) ==
    [state |-> "failed", class |-> class, network |-> source.network,
     url |-> source.url, provider |-> source.provider, registry |-> Undefined,
     error |-> error, calls |-> 0]

\* the constructor of the NamingService base class: the normalized source
\* must name a network and a url or a provider
NamingServiceConstructor(class, source) ==
    IF ~IsTruthy(source.network) THEN Failed(class, source, "UnspecifiedNetwork")
    ELSE IF ~IsTruthy(source.url) /\ ~IsTruthy(source.provider)
         THEN Failed(class, source, "UnspecifiedUrl")
         ELSE Constructed(class, source, source.registry)

\* Zns.constructor(source), networks as ids
ZnsConstructor(src) == NamingServiceConstructor("Zns", ZnsNormalizeSource(src))

\* Zns.constructor(source), networks as names
ZnsNamedConstructor(src) ==
    LET source == ZnsNamedNormalizeSource(src)
        base == NamingServiceConstructor("ZnsNamed", source)
        registryAddress == IF IsTruthy(source.registry) THEN source.registry
                           ELSE Lookup(ZnsNamedRegistryMap, base.network.v)
    IN  IF base.state = "failed" THEN base
        ELSE [base EXCEPT !.registry =
                 IF IsTruthy(registryAddress)
                    /\ StartsWith(registryAddress.v, <<"0", "x">>)
                 THEN Str(toBech32Address(registryAddress.v))
                 ELSE registryAddress]

\* DefaultUrl, NetworkIdMap and RegistryMap of Ens; NetworkNameMap is the
\* inverted NetworkIdMap, whose keys are the network names
EnsDefaultUrl == <<"h", "t", "t", "p", "s", ":", "/", "/", "m", "a", "i", "n", "n", "e", "t", ".", "i", "n", "f", "u", "r", "a", ".", "i", "o">>

EnsNetworkIdMap ==
    {<<<<"1">>, Str(StrMainnet)>>,
     <<<<"3">>, Str(StrRopsten)>>,
     <<<<"4">>, Str(StrKovan)>>,
     <<<<"4", "2">>, Str(StrRinkeby)>>,
     <<<<"5">>, Str(StrGoerli)>>}

EnsNetworkNameMap == {e[2].v : e \in EnsNetworkIdMap}

EnsRegistryMap ==
    {<<StrMainnet, Str(<<"0", "x", "3", "1", "4", "1", "5", "9", "2", "6", "5", "d", "d", "8", "d", "b", "b", "3", "1", "0", "6", "4", "2", "f", "9", "8", "f", "5", "0", "c", "0", "6", "6", "1", "7", "3", "c", "1", "2", "5", "9", "b">>)>>,
     <<StrRopsten, Str(<<"0", "x", "1", "1", "2", "2", "3", "4", "4", "5", "5", "c", "3", "a", "3", "2", "f", "d", "1", "1", "2", "3", "0", "c", "4", "2", "e", "7", "b", "c", "c", "d", "4", "a", "8", "4", "e", "0", "2", "0", "1", "0">>)>>}

\* url.indexOf(name) >= 0
IndexOf(str, sub) ==
    \E i \in 0..(Len(str) - Len(sub)) : SubSeq(str, i + 1, i + Len(sub)) = sub

\* Ens.networkFromUrl(url): the first network name, in the key order of
\* NetworkIdMap, that occurs in the url
networkFromUrl(url) ==
    LET names == <<StrMainnet, StrRopsten, StrKovan, StrGoerli, StrRinkeby>>
        found == {i \in 1..Len(names) : IndexOf(url, names[i])}
    IN  IF found = {} THEN Undefined
        ELSE Str(names[CHOOSE i \in found : \A j \in found : i <= j])

\* `https://${source.network}.infura.io`
InfuraUrl(network) ==
    Str(<<"h", "t", "t", "p", "s", ":", "/", "/">> \o network.v
          \o <<".", "i", "n", "f", "u", "r", "a", ".", "i", "o">>)

\* Ens.normalizeSource(source)
EnsNormalizeSource(src) ==
    IF src.shape = "boolean"
    THEN [url |-> Str(EnsDefaultUrl), network |-> networkFromUrl(EnsDefaultUrl),
          provider |-> Undefined, registry |-> Undefined]
    ELSE IF src.shape = "string"
    THEN [url |-> src.url, network |-> networkFromUrl(src.url.v),
          provider |-> Undefined, registry |-> Undefined]
    ELSE LET n0 == IF src.network.type = "number"
                   THEN Lookup(EnsNetworkIdMap, src.network.v) ELSE src.network
             n1 == IF IsTruthy(src.registry) /\ ~IsTruthy(n0) THEN Str(StrMainnet) ELSE n0
             u1 == IF IsTruthy(src.registry) /\ ~IsTruthy(src.url)
                   THEN InfuraUrl(n1) ELSE src.url
             u2 == IF IsTruthy(n1) /\ ~IsTruthy(u1) /\ n1.v \in EnsNetworkNameMap
                   THEN InfuraUrl(n1) ELSE u1
             n2 == IF IsTruthy(u2) /\ ~IsTruthy(n1) THEN networkFromUrl(u2.v) ELSE n1
         IN  [url |-> u2, network |-> n2, provider |-> Undefined,
              registry |-> src.registry]

\* variant: a missing url is not looked at
EnsConstructor_NoUrlCheck(src) ==
    LET source == EnsNormalizeSource(src)
    IN  IF ~IsTruthy(source.network) THEN Failed("Ens", source, "UnspecifiedNetwork")
        ELSE Constructed("Ens", source,
                         IF IsTruthy(source.registry) THEN source.registry
                         ELSE Lookup(EnsRegistryMap, source.network.v))

\* Ens.constructor(source)
EnsConstructor(src) ==
    LET source == EnsNormalizeSource(src)
    IN  IF ~IsTruthy(source.network) THEN Failed("Ens", source, "UnspecifiedNetwork")
        ELSE IF ~IsTruthy(source.url) THEN Failed("Ens", source, "UnspecifiedUrl")
        ELSE Constructed("Ens", source,
                         IF IsTruthy(source.registry) THEN source.registry
                         ELSE Lookup(EnsRegistryMap, source.network.v))

\* no backend was constructed yet
NoSource ==
    [class |-> "none", shape |-> "object", network |-> Undefined, url |-> Undefined,
     provider |-> Undefined, registry |-> Undefined]
NoBackend ==
    [state |-> "none", class |-> "none", network |-> Undefined, url |-> Undefined,
     provider |-> Undefined, registry |-> Undefined, error |-> "none", calls |-> 0]

Construct(class, made) ==
    /\ sourceDefinition.class = class
    /\ backend.state = "none"
    /\ backend' = made
    /\ UNCHANGED <<dispatchVars, hashVars, znsVars, sourceDefinition, errorVars, ensVars, other>>

\* new Zns(source), networks as ids
ConstructZns == Construct("Zns", ZnsConstructor(sourceDefinition))

\* new Zns(source), networks as names
ConstructZnsNamed == Construct("ZnsNamed", ZnsNamedConstructor(sourceDefinition))

\* new Ens(source)
ConstructEns == Construct("Ens", EnsConstructor(sourceDefinition))

\* isSupportedNetwork() on a backend that exists: a call after construction
CallIsSupportedNetwork ==
    /\ backend.state = "constructed"
    /\ backend.calls = 0
    /\ backend' = [backend EXCEPT !.calls = 1]
    /\ UNCHANGED <<dispatchVars, hashVars, znsVars, sourceDefinition, errorVars, ensVars, other>>

\* the source definitions a caller hands to a constructor
SourceNetworks ==
    {Undefined, Num(<<"1">>), Num(<<"3", "3", "3">>), Num(<<"4", "2">>),
     Str(StrMainnet), Str(StrTestnet), Str(<<"i", "n", "v", "a", "l", "i", "d">>)}

SourceUrls ==
    {Undefined, Str(<<"h", "t", "t", "p", "s", ":", "/", "/", "a", "p", "i", ".", "z", "i", "l", "l", "i", "q", "a", ".", "c", "o", "m">>), Str(<<"h", "t", "t", "p", "s", ":", "/", "/", "d", "e", "v", "-", "a", "p", "i", ".", "z", "i", "l", "l", "i", "q", "a", ".", "c", "o", "m">>),
     Str(EnsDefaultUrl), Str(<<"h", "t", "t", "p", "s", ":", "/", "/", "x", ".", "i", "o">>)}

SourceRegistries == {Undefined, Str(<<"z", "i", "l", "1", "r">>), Str(<<"0", "x", "r">>)}

SourceDefinitions ==
    [class : {"Zns", "ZnsNamed"}, shape : {"object"}, network : SourceNetworks,
     url : SourceUrls, provider : {Undefined, ProviderObject},
     registry : SourceRegistries]
      \cup [class : {"Ens"}, shape : {"object"}, network : SourceNetworks,
            url : SourceUrls, provider : {Undefined}, registry : SourceRegistries]
      \cup [class : {"Ens"}, shape : {"string"}, network : {Undefined},
            url : SourceUrls \ {Undefined}, provider : {Undefined},
            registry : {Undefined}]
      \cup [class : {"Ens"}, shape : {"boolean"}, network : {Undefined},
            url : {Undefined}, provider : {Undefined}, registry : {Undefined}]

----------------------------------------------------------------------------
(* ResolutionError and the places that throw it *)

\* no error was constructed, no Ens call was made, no second call is suspended
NoSite ==
    [name |-> "none", code |-> "none", passes |-> {}, domain |-> JsUndefined,
     currencyTicker |-> JsUndefined, recordName |-> JsUndefined, method |-> JsUndefined]
NoThrown == [code |-> "none"]
NoErrors == site = NoSite /\ thrown = NoThrown
NoEnsChain == [registryAddress |-> JsUndefined]
NoEnsCall == [op |-> "none"]
NoEns == ensChain = NoEnsChain /\ ens = NoEnsCall
NoOther == [pc |-> "none"]

\* ResolutionErrorOptions: the fields a throw site may pass
OptionFields == {"domain", "method", "currencyTicker", "recordName"}

\* HandlersByCode[code](params): the message, as the words and the values in it
HandlersByCode(code, params) ==
    CASE code = UnregisteredDomain -> <<"Domain", params.domain, "is not registered">>
      [] code = UnspecifiedResolver -> <<"Domain", params.domain, "is not configured">>
      [] code = UnsupportedDomain -> <<"Domain", params.domain, "is not supported">>
      [] code = UnspecifiedCurrency ->
            <<"Domain", params.domain, "has no", params.currencyTicker, "attached to it">>
      [] code = NamingServiceDown ->
            <<params.method, "naming service is down at the moment">>
      [] code = "UnsupportedCurrency" -> <<params.currencyTicker, "is not supported">>
      [] code = "IncorrectResolverInterface" ->
            <<"Domain resolver is configured incorrectly for", params.method>>
      [] code = RecordNotFound ->
            <<"No", params.recordName, "record found for", params.domain>>

\* new ResolutionError(code, options): the fields the constructor assigns
ResolutionErrorConstructor(code, options) ==
    [name |-> "ResolutionError",
     message |-> HandlersByCode(code, options),
     code |-> code,
     domain |-> options.domain,
     method |-> options.method,
     currencyTicker |-> options.currencyTicker]

\* error[field]: a property that was never assigned reads as undefined
ReadField(error, field) ==
    IF field \in DOMAIN error THEN error[field] ELSE JsUndefined

\* the throw sites: the code they raise, the values in scope there (known) and
\* the options they pass
ThrowSites ==
    {[name |-> "Resolution.getPreferableNewRecord", code |-> RecordNotFound,
      known |-> {"domain", "recordName"}, passes |-> {"domain", "recordName"}],
     [name |-> "Resolution.callForDomain", code |-> UnsupportedDomain,
      known |-> {"domain"}, passes |-> {"domain"}],
     [name |-> "Resolution.callForDomain", code |-> UnregisteredDomain,
      known |-> {"domain"}, passes |-> {"domain"}],
     [name |-> "Zns.address", code |-> UnregisteredDomain,
      known |-> {"domain", "currencyTicker"}, passes |-> {"domain"}],
     [name |-> "Zns.address", code |-> UnspecifiedCurrency,
      known |-> {"domain", "currencyTicker"}, passes |-> {"domain", "currencyTicker"}],
     [name |-> "Zns.resolver", code |-> UnregisteredDomain,
      known |-> {"domain"}, passes |-> {"domain"}],
     [name |-> "Zns.resolver", code |-> UnspecifiedResolver,
      known |-> {"domain"}, passes |-> {"domain"}],
     [name |-> "Ens.address", code |-> UnregisteredDomain,
      known |-> {"domain", "currencyTicker"}, passes |-> {"domain"}],
     [name |-> "Ens.address", code |-> UnspecifiedResolver,
      known |-> {"domain", "currencyTicker"}, passes |-> {}],
     [name |-> "Ens.address", code |-> UnspecifiedCurrency,
      known |-> {"domain", "currencyTicker"}, passes |-> {"domain", "currencyTicker"}],
     [name |-> "Ens.getCoinType", code |-> "UnsupportedCurrency",
      known |-> {"currencyTicker"}, passes |-> {"currencyTicker"}],
     [name |-> "Ens.callMethod", code |-> NamingServiceDown,
      known |-> {"method"}, passes |-> {"method"}]}

\* the values a call brings to a throw site
SiteValues ==
    [domain : {<<"b", ".">> \o StrZil, <<"b", ".", "e", "t", "h">>, <<"b", ".">> \o StrCrypto},
     currencyTicker : {StrBTC, StrETH, <<"Z", "I", "L">>},
     recordName : {<<"k", "1">>, <<"k", "2">>, <<"k", "3">>},
     method : {<<"E", "N", "S">>}]

\* a throw site reached by a call: the fields out of scope are undefined
Sites ==
    {[name |-> t.name, code |-> t.code, passes |-> t.passes,
      domain |-> IF "domain" \in t.known THEN v.domain ELSE JsUndefined,
      currencyTicker |-> IF "currencyTicker" \in t.known THEN v.currencyTicker
                         ELSE JsUndefined,
      recordName |-> IF "recordName" \in t.known THEN v.recordName ELSE JsUndefined,
      method |-> IF "method" \in t.known THEN v.method ELSE JsUndefined] :
        t \in ThrowSites, v \in SiteValues}

\* the options object the site passes to the constructor
OptionsAt(s) ==
    [f \in OptionFields |-> IF f \in s.passes THEN s[f] ELSE JsUndefined]

\* throw new ResolutionError(code, options) at the site
ThrowResolutionError ==
    /\ site.name # "none"
    /\ thrown = NoThrown
    /\ thrown' = ResolutionErrorConstructor(site.code, OptionsAt(site))
    /\ UNCHANGED <<dispatchVars, hashVars, znsVars, configVars, site, ensVars, other>>

----------------------------------------------------------------------------
(* The Ethereum backend (Ens) *)

StrEth == <<"e", "t", "h">>
StrLuxe == <<"l", "u", "x", "e">>
StrXyz == <<"x", "y", "z">>
StrTest == <<"t", "e", "s", "t">>

JsTrue == <<"true">>
JsFalse == <<"false">>
JsBoolean(b) == IF b THEN JsTrue ELSE JsFalse

\* domain.indexOf('.'), counted from 0; -1 when there is no dot
IndexOfDot(d) ==
    IF \E i \in 1..Len(d) : d[i] = Dot
    THEN (CHOOSE i \in 1..Len(d) : d[i] = Dot /\ \A j \in 1..(i - 1) : d[j] # Dot) - 1
    ELSE -1

\* /^.{1,}\.(eth|luxe|xyz|test)$/.test(domain)
EnsDomainPattern(d) ==
    \E tld \in {StrEth, StrLuxe, StrXyz, StrTest} :
        /\ Len(d) >= Len(tld) + 2
        /\ SubSeq(d, Len(d) - Len(tld), Len(d)) = <<Dot>> \o tld

\* Ens.isSupportedDomain(domain)
EnsIsSupportedDomain(d) == IndexOfDot(d) > 0 /\ EnsDomainPattern(d)

\* a caller asks a backend whether it supports the requested domain
CallZnsIsSupportedDomain ==
    Respond("Zns.isSupportedDomain",
            Fulfilled(JsBoolean(ZnsIsSupportedDomain(request.domain))))

CallEnsIsSupportedDomain ==
    Respond("Ens.isSupportedDomain",
            Fulfilled(JsBoolean(EnsIsSupportedDomain(request.domain))))

\* the reads of the registry and resolver contracts of one node, and the
\* coin-type table of bip44-constants: BIP-44 indexes, plain or with the
\* hardened bit 0x80000000 set; one ticker has two entries. A coin type is a
\* 32-bit number, kept as its two 16-bit halves
UInt32(high, low) == <<high, low>>

Plain(index) == UInt32(0, index)

Hardened(index) == UInt32(32768, index)

StrDUP == <<"D", "U", "P">>

Bip44Tables ==
    {<<<<Plain(0), StrBTC>>, <<Plain(60), StrETH>>,
       <<Plain(5), StrDUP>>, <<Plain(6), StrDUP>>>>,
     <<<<Hardened(0), StrBTC>>, <<Hardened(60), StrETH>>,
       <<Hardened(5), StrDUP>>, <<Hardened(6), StrDUP>>>>}

EnsChains ==
    [registryAddress : {<<"0", "x", "r">>, JsUndefined},
     owner : {NullAddress, <<"0", "x", "a">>},
     ttl : {<<"0">>, <<"3", "0", "0">>},
     resolver : {NullAddress, <<"0", "x", "b">>},
     addr : {<<>>, <<"0", "x", "e">>},
     typed : {<<>>, <<"0", "x", "f">>},
     constants : Bip44Tables]

\* the domains and tickers the Ens calls are made with
EnsDomains == {<<"b", ".">> \o StrEth, <<"b", ".">> \o StrZil}

EnsTickers == {StrBTC, <<"e", "t", "h">>, StrDUP, <<"X", "R", "P">>}

\* an error that is not a ResolutionError, with the fields of one
ErrorObject(name, message) ==
    [name |-> name, message |-> message, code |-> "none", domain |-> JsUndefined,
     method |-> JsUndefined, currencyTicker |-> JsUndefined]

NoEnsError == ErrorObject("none", <<>>)

\* a promise: pending, fulfilled with a value or rejected with an error
EnsPending == [state |-> "pending", value |-> JsUndefined, error |-> NoEnsError]
EnsFulfilled(value) == [state |-> "fulfilled", value |-> value, error |-> NoEnsError]
EnsRejected(error) == [state |-> "rejected", value |-> JsUndefined, error |-> error]

\* an options literal: the fields given, the others undefined
Options(given) ==
    [f \in OptionFields |-> IF f \in DOMAIN given THEN given[f] ELSE JsUndefined]

\* contract.methods[method](nodeHash, ...args): a read that was issued
ContractRead(m, a) == [method |-> m, args |-> a]

\* what the chain answers to a read
ReadValue(read) ==
    CASE read.method = "owner" -> ensChain.owner
      [] read.method = "ttl" -> ensChain.ttl
      [] read.method = "resolver" -> ensChain.resolver
      [] read.method = "addr" -> IF read.args = <<>> THEN ensChain.addr ELSE ensChain.typed

\* Ens.callMethod(method): the read through the transport, which answers or
\* throws an error with the given message
callMethod(read, transport) ==
    IF transport = NoFailure THEN EnsFulfilled(ReadValue(read))
    ELSE IF Matches(transport, InvalidJsonRpcResponse)
         THEN EnsRejected(ResolutionErrorConstructor(NamingServiceDown,
                                                     Options([method |-> <<"E", "N", "S">>])))
         ELSE EnsRejected(ErrorObject("Error", transport))

\* Ens.getCoinType(currencyTicker): the entries of the ticker, and the coin
\* type of the first; the caller throws unless there is exactly one
getCoinType(currencyTicker) ==
    LET coin == SelectSeq(ensChain.constants,
                          LAMBDA item : item[2] = ToUpperCase(currencyTicker))
    IN  [threw |-> Len(coin) # 1,
         coinType |-> IF Len(coin) = 0 THEN <<>> ELSE <<coin[1][1]>>]

\* Ens.fetchAddress(resolver, nodeHash, coinType?): the reads it issues; the
\* optional coinType is <<>> when omitted; without a read the answer is null
fetchAddress(resolver, coinType) ==
    IF Falsy(resolver) \/ resolver = NullAddress THEN <<>>
    ELSE IF coinType # <<>> /\ coinType[1] # UInt32(0, 0)
         THEN <<ContractRead("addr", coinType)>>
         ELSE <<ContractRead("addr", <<>>)>>

\* Number(ttl) of a decimal string; the contract answers ttl in decimal, and
\* -1 stands for the number of any other string
RECURSIVE DecimalValue(_)
DecimalValue(digits) ==
    IF digits = <<>> THEN 0
    ELSE IF \E i \in 1..Len(digits) : \A n \in 0..9 : ToString(n) # digits[i] THEN -1
    ELSE 10 * DecimalValue(SubSeq(digits, 1, Len(digits) - 1))
         + (CHOOSE n \in 0..9 : ToString(n) = digits[Len(digits)])

\* the result of Ens.resolve before it is built
NoEnsResolution ==
    [addresses |-> [ETH |-> JsUndefined],
     meta |-> [owner |-> JsUndefined, type |-> "none", ttl |-> 0]]

\* no call of the Ens instance was started
EnsIdle ==
    [op |-> "none", domain |-> <<>>, currencyTicker |-> <<>>, pc |-> "idle",
     issued |-> <<>>, slots |-> <<>>, settled |-> <<>>,
     owner |-> JsUndefined, resolver |-> JsUndefined,
     state |-> "none", value |-> JsUndefined, resolution |-> NoEnsResolution,
     error |-> NoEnsError]

\* the call returns or throws
EnsReturn(call, value) == [call EXCEPT !.pc = "done", !.state = "fulfilled", !.value = value]
EnsThrow(call, error) == [call EXCEPT !.pc = "done", !.state = "rejected", !.error = error]

\* Ens.address(domain, currencyTicker) up to its first await; without a
\* registry address there is no ensContract and the property access throws
EnsAddress(d, currencyTicker) ==
    /\ ens.op = "none"
    /\ LET call == [EnsIdle EXCEPT !.op = "address", !.domain = d,
                                   !.currencyTicker = currencyTicker,
                                   !.state = "pending"]
       IN  ens' = IF ensChain.registryAddress = JsUndefined
                  THEN EnsThrow(call, ErrorObject("TypeError", <<"undefined", "methods">>))
                  ELSE [call EXCEPT !.pc = "owner",
                                    !.issued = <<ContractRead("owner", <<>>)>>]
    /\ UNCHANGED <<dispatchVars, hashVars, znsVars, configVars, errorVars, ensChain, other>>

\* the owner read settles and Ens.address goes on to its second await
EnsAddressOwner(transport) ==
    /\ ens.op = "address"
    /\ ens.pc = "owner"
    /\ LET owner == callMethod(ens.issued[1], transport)
       IN  ens' = IF owner.state = "rejected" THEN EnsThrow(ens, owner.error)
                  ELSE IF Falsy(owner.value) \/ owner.value = NullAddress
                       THEN EnsThrow(ens, ResolutionErrorConstructor(UnregisteredDomain,
                                              Options([domain |-> ens.domain])))
                       ELSE [ens EXCEPT !.pc = "resolver", !.owner = owner.value,
                                        !.issued = Append(@, ContractRead("resolver", <<>>))]
    /\ UNCHANGED <<dispatchVars, hashVars, znsVars, configVars, errorVars, ensChain, other>>

\* the resolver read settles; the coin type is looked up and the address read
\* is issued
EnsAddressResolver(transport) ==
    /\ ens.op = "address"
    /\ ens.pc = "resolver"
    /\ LET resolver == callMethod(ens.issued[2], transport)
           coin == getCoinType(ens.currencyTicker)
       IN  ens' = IF resolver.state = "rejected" THEN EnsThrow(ens, resolver.error)
                  ELSE IF Falsy(resolver.value) \/ resolver.value = NullAddress
                       THEN EnsThrow(ens, ResolutionErrorConstructor(UnspecifiedResolver,
                                              Options(<<>>)))
                  ELSE IF coin.threw
                       THEN EnsThrow([ens EXCEPT !.resolver = resolver.value],
                                     ResolutionErrorConstructor("UnsupportedCurrency",
                                         Options([currencyTicker |-> ens.currencyTicker])))
                       ELSE [ens EXCEPT !.pc = "addr", !.resolver = resolver.value,
                                        !.issued = @ \o fetchAddress(resolver.value,
                                                                     coin.coinType)]
    /\ UNCHANGED <<dispatchVars, hashVars, znsVars, configVars, errorVars, ensChain, other>>

\* the address read settles and Ens.address returns or throws
EnsAddressAddr(transport) ==
    /\ ens.op = "address"
    /\ ens.pc = "addr"
    /\ LET addr == callMethod(ens.issued[3], transport)
       IN  ens' = IF addr.state = "rejected" THEN EnsThrow(ens, addr.error)
                  ELSE IF Falsy(addr.value)
                       THEN EnsThrow(ens, ResolutionErrorConstructor(UnspecifiedCurrency,
                                              Options([domain |-> ens.domain,
                                                       currencyTicker |-> ens.currencyTicker])))
                       ELSE EnsReturn(ens, addr.value)
    /\ UNCHANGED <<dispatchVars, hashVars, znsVars, configVars, errorVars, ensChain, other>>

\* Ens.getResolutionInfo(nodeHash): the three reads handed to Promise.all
getResolutionInfo ==
    <<ContractRead("owner", <<>>), ContractRead("ttl", <<>>), ContractRead("resolver", <<>>)>>

\* Ens.resolve(domain) up to its first await
EnsResolve(d) ==
    /\ ens.op = "none"
    /\ LET call == [EnsIdle EXCEPT !.op = "resolve", !.domain = d, !.state = "pending"]
       IN  ens' = IF ~EnsIsSupportedDomain(d) \/ ensChain.registryAddress = JsUndefined
                  THEN EnsReturn(call, JsNull)
                  ELSE [call EXCEPT !.pc = "info", !.issued = getResolutionInfo,
                                    !.slots = <<EnsPending, EnsPending, EnsPending>>]
    /\ UNCHANGED <<dispatchVars, hashVars, znsVars, configVars, errorVars, ensChain, other>>

\* Promise.all(promises) once every promise is fulfilled: the values
PromiseAll_ByCompletion(slots, settled) ==
    [i \in 1..Len(slots) |-> slots[settled[i]].value]

PromiseAll(slots, settled) ==
    [i \in 1..Len(slots) |-> slots[i].value]

\* what Ens.resolve does with the joined [owner, ttl, resolver]
EnsResolveJoined(call, info) ==
    LET owner == IF info[1] = NullAddress THEN JsNull ELSE info[1]
        reads == fetchAddress(info[3], <<>>)
        joined == [call EXCEPT !.owner = owner, !.resolver = info[3],
                               !.resolution = [addresses |-> [ETH |-> JsUndefined],
                                               meta |-> [owner |-> owner, type |-> "ens",
                                                         ttl |-> DecimalValue(info[2])]]]
    IN  IF reads = <<>>
        THEN [EnsReturn(joined, JsUndefined) EXCEPT !.resolution.addresses.ETH = JsNull]
        ELSE [joined EXCEPT !.pc = "addr", !.issued = @ \o reads]

\* one of the three reads settles; Promise.all rejects with the first
\* rejection and fulfils when the last read is fulfilled, and Ens.resolve goes
\* on in the same turn; a read that settles after the rejection has no effect
EnsInfoSettles(i, transport) ==
    /\ ens.op = "resolve"
    /\ i \in DOMAIN ens.slots
    /\ ens.slots[i].state = "pending"
    /\ LET r == callMethod(ens.issued[i], transport)
           settledCall == [ens EXCEPT !.slots[i] = r, !.settled = Append(@, i)]
       IN  ens' = IF ens.pc # "info" THEN settledCall
                  ELSE IF r.state = "rejected" THEN EnsThrow(settledCall, r.error)
                  ELSE IF \A j \in DOMAIN settledCall.slots :
                              settledCall.slots[j].state = "fulfilled"
                       THEN EnsResolveJoined(settledCall,
                                PromiseAll(settledCall.slots, settledCall.settled))
                       ELSE settledCall
    /\ UNCHANGED <<dispatchVars, hashVars, znsVars, configVars, errorVars, ensChain, other>>

\* the address read settles and Ens.resolve returns or throws
EnsResolveAddr(transport) ==
    /\ ens.op = "resolve"
    /\ ens.pc = "addr"
    /\ LET address == callMethod(ens.issued[4], transport)
       IN  ens' = IF address.state = "rejected"
                  THEN [EnsThrow(ens, address.error) EXCEPT !.resolution = NoEnsResolution]
                  ELSE [EnsReturn(ens, JsUndefined) EXCEPT
                            !.resolution.addresses.ETH = address.value]
    /\ UNCHANGED <<dispatchVars, hashVars, znsVars, configVars, errorVars, ensChain, other>>

\* the domains asked about: up to MaxLabels labels, empty ones included
MaxLabels == 3

DomainLabels == {<<>>, <<"a">>, <<"-", "a", "-">>, StrZil, StrEth}

DomainPool ==
    {Join(labels, Dot) : labels \in UNION {[1..n -> DomainLabels] : n \in 1..MaxLabels}}

----------------------------------------------------------------------------
(* Initial states and specifications *)

\* no record set was structured yet
NoResolution ==
    [structured |-> FALSE, resolution |-> EmptyObj,
     extracted |-> FALSE, addresses |-> <<>>]

\* formatNamehash was not called yet
NoFormat == [hash |-> NoHash, options |-> [format |-> "hex", prefix |-> TRUE], out |-> NoHash]

NoLookup ==
    /\ chain = [registryAddress |-> JsUndefined,
                registryRecord |-> [present |-> FALSE, arguments |-> <<<<>>, <<>>>>],
                resolverRecords |-> <<>>,
                transport |-> NoFailure,
                unsRecord |-> Pending]
    /\ request = [domain |-> <<>>, ticker |-> <<>>, key |-> <<>>]
    /\ response = [op |-> "none", result |-> JsNull, error |-> NullError]
    /\ resolved = NoResolution

NoHashing ==
    /\ hashIn = [alg |-> "none", parent |-> <<>>, label |-> <<>>, prefixed |-> FALSE]
    /\ hashOut = [namehash |-> NoHash, childhash |-> NoHash]
    /\ formatted = NoFormat

NoConfig ==
    /\ sourceDefinition = NoSource
    /\ backend = NoBackend
    /\ NoErrors
    /\ NoEns
    /\ other = NoOther

NoDispatch ==
    /\ serviceMap = Constructor([uns |-> [api |-> FALSE, url |-> "url1"],
                                 zns |-> [api |-> FALSE, url |-> "url1"]])
    /\ pc = "unused"
    /\ method = "none"
    /\ rawDomain = <<>>
    /\ domain = <<>>
    /\ func = "none"
    /\ args = <<>>
    /\ servicePromises = <<>>
    /\ idx = 0
    /\ settleOrder = <<>>
    /\ callOutcome = NoOutcome

Init ==
    /\ NoHashing
    /\ NoLookup
    /\ NoConfig
    /\ \/ \E sourceConfig \in SourceConfigs : serviceMap = Constructor(sourceConfig)
       \/ \E sourceConfig \in AutoNetworkConfigs : serviceMap = autoNetwork(sourceConfig)
    /\ pc = "idle"
    /\ method = "none"
    /\ rawDomain = <<>>
    /\ domain = <<>>
    /\ func = "none"
    /\ args = <<>>
    /\ servicePromises = <<>>
    /\ idx = 0
    /\ settleOrder = <<>>
    /\ callOutcome = NoOutcome

Next ==
    \/ \E raw \in RawDomains : Owner(raw)
    \/ \E raw \in RawDomains, k \in RecordKeys : Record(raw, k)
    \/ \E raw \in RawDomains : IsRegistered(raw)
    \/ \E raw \in RawDomains : IsAvailable(raw)
    \/ \E raw \in RawDomains : IsSupportedDomain(raw)
    \/ \E raw \in RawDomains : RegistryAddress(raw)
    \/ \E raw \in RawDomains : Locations(raw)
    \/ \E raw \in RawDomains : TokenURI(raw)
    \/ \E raw \in RawDomains, namingService \in {UNS, ZNS, "ENS"} :
          ResolutionNamehash(raw, namingService)
    \/ \E i \in 1..Len(servicePromises) : BackendSettle(i)
    \/ ResumeCallForDomain
    \/ ResumeCallForDomainBoolean

Spec == Init /\ [][Next]_vars

\* the sources of the backend that is constructed and asked next to the calls
InterleavedSources ==
    {src \in SourceDefinitions :
        /\ src.class \in {"Zns", "Ens"}
        /\ src.shape = "object"
        /\ src.network = Num(<<"1">>)
        /\ src.url = Undefined
        /\ src.provider = Undefined
        /\ src.registry = Str(<<"0", "x", "r">>)}

InitCalls ==
    /\ NoHashing
    /\ NoLookup
    /\ sourceDefinition \in InterleavedSources
    /\ backend = NoBackend
    /\ NoErrors
    /\ NoEns
    /\ serviceMap = Constructor([uns |-> [api |-> FALSE, url |-> "url1"],
                                 zns |-> [api |-> FALSE, url |-> "url1"]])
    /\ pc = "idle"
    /\ method = "none"
    /\ rawDomain = <<>>
    /\ domain = <<>>
    /\ func = "none"
    /\ args = <<>>
    /\ servicePromises = <<>>
    /\ idx = 0
    /\ settleOrder = <<>>
    /\ callOutcome = NoOutcome
    /\ other = IdleCall

NextCalls ==
    \/ \E raw \in InterleavedDomains : Owner(raw)
    \/ \E i \in 1..Len(servicePromises) : BackendSettle(i)
    \/ ResumeCallForDomain
    \/ Switch
    \/ ConstructZns
    \/ ConstructEns
    \/ CallIsSupportedNetwork

SpecCalls == InitCalls /\ [][NextCalls]_vars

InitHash ==
    /\ NoDispatch
    /\ NoLookup
    /\ NoConfig
    /\ hashIn \in HashInputs
    /\ hashOut = [namehash |-> NoHash, childhash |-> NoHash]
    /\ formatted = NoFormat

NextHash == Namehash \/ Childhash \/ FormatNamehash

SpecHash == InitHash /\ [][NextHash]_vars

InitZns ==
    /\ NoDispatch
    /\ NoHashing
    /\ NoConfig
    /\ chain \in Chains
    /\ request \in Requests
    /\ response = [op |-> "none", result |-> JsNull, error |-> NullError]
    /\ resolved = NoResolution

NextZns ==
    \/ CallZnsAddress
    \/ CallResolutionAddr
    \/ CallZnsOwner
    \/ CallResolutionOwner
    \/ CallZnsResolver
    \/ CallEnsCallMethod

SpecZns == InitZns /\ [][NextZns]_vars

InitRecords ==
    /\ NoDispatch
    /\ NoHashing
    /\ NoConfig
    /\ chain \in LookupChains
    /\ request \in LookupRequests
    /\ response = [op |-> "none", result |-> JsNull, error |-> NullError]
    /\ resolved = NoResolution

NextRecords ==
    \/ CallResolutionRecord
    \/ CallResolutionIpfsHash
    \/ CallResolutionHttpUrl

SpecRecords == InitRecords /\ [][NextRecords]_vars

InitCodec ==
    /\ NoDispatch
    /\ NoHashing
    /\ NoConfig
    /\ chain \in CodecChains
    /\ request = [domain |-> <<"b", ".">> \o StrZil, ticker |-> <<>>, key |-> <<>>]
    /\ response = [op |-> "none", result |-> JsNull, error |-> NullError]
    /\ resolved = NoResolution

NextCodec == CallZnsResolution \/ CallZnsResolve

SpecCodec == InitCodec /\ [][NextCodec]_vars

InitDomains ==
    /\ NoDispatch
    /\ NoHashing
    /\ NoConfig
    /\ chain \in {c \in Chains : c.registryRecord.present = FALSE /\ c.resolverRecords = <<>>
                                  /\ c.transport = NoFailure}
    /\ request \in [domain : DomainPool \ {<<>>}, ticker : {<<>>}, key : {<<>>}]
    /\ response = [op |-> "none", result |-> JsNull, error |-> NullError]
    /\ resolved = NoResolution

NextDomains == CallZnsIsSupportedDomain \/ CallEnsIsSupportedDomain

SpecDomains == InitDomains /\ [][NextDomains]_vars

InitEns ==
    /\ NoDispatch
    /\ NoHashing
    /\ NoLookup
    /\ sourceDefinition = NoSource
    /\ backend = NoBackend
    /\ NoErrors
    /\ other = NoOther
    /\ ensChain \in EnsChains
    /\ ens = EnsIdle

NextEns ==
    \/ \E d \in EnsDomains, currencyTicker \in EnsTickers : EnsAddress(d, currencyTicker)
    \/ \E transport \in TransportMessages : EnsAddressOwner(transport)
    \/ \E transport \in TransportMessages : EnsAddressResolver(transport)
    \/ \E transport \in TransportMessages : EnsAddressAddr(transport)
    \/ \E d \in EnsDomains : EnsResolve(d)
    \/ \E i \in 1..3, transport \in TransportMessages : EnsInfoSettles(i, transport)
    \/ \E transport \in TransportMessages : EnsResolveAddr(transport)

SpecEns == InitEns /\ [][NextEns]_vars

InitErrors ==
    /\ NoDispatch
    /\ NoHashing
    /\ NoLookup
    /\ sourceDefinition = NoSource
    /\ backend = NoBackend
    /\ NoEns
    /\ other = NoOther
    /\ site \in Sites
    /\ thrown = NoThrown

NextErrors == ThrowResolutionError

SpecErrors == InitErrors /\ [][NextErrors]_vars

InitConfig ==
    /\ NoDispatch
    /\ NoHashing
    /\ NoLookup
    /\ NoErrors
    /\ NoEns
    /\ other = NoOther
    /\ sourceDefinition \in SourceDefinitions
    /\ backend = NoBackend

NextConfig ==
    \/ ConstructZns
    \/ ConstructZnsNamed
    \/ ConstructEns
    \/ CallIsSupportedNetwork

SpecConfig == InitConfig /\ [][NextConfig]_vars

\* the event loop resumes an async function once the promise it awaits has
\* settled
FairSpec ==
    Spec /\ WF_vars(ResumeCallForDomain) /\ WF_vars(ResumeCallForDomainBoolean)

----------------------------------------------------------------------------
(* Properties of the dispatch *)

Started == servicePromises # <<>>
Done == pc \in {"returned", "thrown"}
Backends == 1..Len(servicePromises)

Settled(i) == servicePromises[i].state = "settled"
InFlight(i) == servicePromises[i].state = "pending"
IsFallbackError(e) == e.class = "ResolutionError" /\ e.code = "UnregisteredDomain"
FailedUnregistered(i) == Settled(i) /\ IsFallbackError(servicePromises[i].error)
FailedFatally(i) ==
    /\ Settled(i)
    /\ servicePromises[i].error.class # "null"
    /\ ~IsFallbackError(servicePromises[i].error)
Succeeded(i) == Settled(i) /\ servicePromises[i].error.class = "null"
AnsweredFalse(i) == Succeeded(i) /\ servicePromises[i].result = "false"
AnsweredTrue(i) == Succeeded(i) /\ servicePromises[i].result = "true"
ValueCall == method \in {"owner", "record"}
BooleanCall == method \in {"isRegistered", "isAvailable", "isSupportedDomain"}
Unrouted == findNamingServiceName(domain) = NoService
OrchestratorError(code) ==
    [class |-> "ResolutionError", code |-> code, domain |-> domain, origin |-> 0]

\* C1: in callForDomain the loop moves past a backend only when that backend
\* failed with exactly UnregisteredDomain; when the backend it stands on failed
\* with any other error the call fails with that very error object
C1_FallbackOnlyOnUnregisteredDomain ==
    (ValueCall /\ Started) =>
        /\ \A j \in 1..(idx - 1) : FailedUnregistered(j)
        /\ Done => Settled(idx)
        /\ (Done /\ FailedFatally(idx)) =>
              /\ pc = "thrown"
              /\ callOutcome.error = servicePromises[idx].error
              /\ callOutcome.error.origin = idx

C1_Witness ==
    /\ ValueCall /\ pc = "thrown" /\ idx = 2
    /\ FailedUnregistered(1)
    /\ servicePromises[2].error.code = NamingServiceDown
    /\ callOutcome.error = servicePromises[2].error

C3_FirstSuccessWins ==
    (ValueCall /\ Started) =>
        /\ pc = "returned" =>
              \E k \in Backends :
                 /\ Succeeded(k)
                 /\ \A j \in 1..(k - 1) : FailedUnregistered(j)
                 /\ callOutcome = [result |-> servicePromises[k].result,
                                   error |-> NullError]
        /\ \A k \in Backends :
              (Done /\ Succeeded(k) /\ \A j \in 1..(k - 1) : FailedUnregistered(j)) =>
                 /\ pc = "returned"
                 /\ callOutcome.result = servicePromises[k].result

\* the lower-priority backend completed first with another value, and the
\* higher-priority backend's result is the one returned
C3_Witness ==
    /\ ValueCall /\ pc = "returned"
    /\ settleOrder = <<2, 1>>
    /\ Succeeded(1) /\ Succeeded(2)
    /\ servicePromises[1].result = "r1" /\ servicePromises[2].result = "r2"
    /\ callOutcome.result = "r1"

AllFailedUnregistered == Started /\ \A i \in Backends : FailedUnregistered(i)

\* C4: when every routed backend failed with UnregisteredDomain, callForDomain
\* ends, and ends by failing with a ResolutionError of code UnregisteredDomain
\* that carries the requested domain; it returns no value
C4_ExhaustedListFails ==
    /\ []((ValueCall /\ AllFailedUnregistered) =>
            /\ pc # "returned"
            /\ pc = "thrown" => callOutcome.error = OrchestratorError(UnregisteredDomain))
    /\ ((ValueCall /\ AllFailedUnregistered) ~> (pc = "thrown"))

C4_Witness ==
    /\ ValueCall /\ AllFailedUnregistered /\ Len(servicePromises) = 2
    /\ pc = "thrown"
    /\ callOutcome.error.code = UnregisteredDomain
    /\ callOutcome.error.domain = <<"b", ".", "z", "i", "l">>

\* C5: callForDomain on a domain whose suffix has no naming service fails with
\* UnsupportedDomain, and no backend operation has been invoked
C5_UnroutedDomainFails ==
    (ValueCall /\ Unrouted) =>
        /\ pc = "thrown"
        /\ callOutcome.error = OrchestratorError(UnsupportedDomain)
        /\ servicePromises = <<>>
        /\ settleOrder = <<>>

C5_Witness ==
    /\ method = "owner" /\ Unrouted /\ pc = "thrown"
    /\ domain = <<"b", ".", "c", "o", "m">>
    /\ callOutcome.error.code = UnsupportedDomain

C7_UnroutedBoolean ==
    (BooleanCall /\ Unrouted) =>
        /\ servicePromises = <<>>
        /\ method = "isSupportedDomain" =>
              pc = "returned" /\ callOutcome = [result |-> "false", error |-> NullError]
        /\ method \in {"isRegistered", "isAvailable"} =>
              pc = "thrown" /\ callOutcome.error = OrchestratorError(UnsupportedDomain)

C7_Witness ==
    /\ method = "isSupportedDomain" /\ Unrouted
    /\ pc = "returned" /\ callOutcome.result = "false"
    /\ domain = <<"b", ".", "c", "o", "m">>

----------------------------------------------------------------------------
(* Properties of the hashing engine *)

\* C9: in both schemes, for every label and every parent domain, the empty
\* root included, the childhash of the parent's namehash and the label equals
\* the namehash of label + "." + parent, whether or not the parent hash is
\* handed over with its 0x prefix
C9_ChildhashIsNamehash ==
    (hashOut.namehash # NoHash /\ hashOut.childhash # NoHash) =>
        hashOut.childhash = hashOut.namehash

\* the root case: childhash(zero, "a") and namehash("a.") were both computed
\* from an unprefixed all-zero parent hash
C9_Witness ==
    /\ hashIn.parent = <<>> /\ hashIn.label = <<"a">> /\ ~hashIn.prefixed
    /\ hashOut.namehash # NoHash
    /\ hashOut.childhash = hashOut.namehash
    /\ hashOut.namehash = znsNamehash(<<"a">>)

----------------------------------------------------------------------------
(* Properties of the currency lookup *)

RequestedKey ==
    StrCrypto \o <<Dot>> \o ToUpperCase(request.ticker) \o <<Dot>> \o StrAddress

\* the requested domain is registered in the Zilliqa registry with an owner
\* and a resolver, and the resolver has no crypto.<TICKER>.address record
RegisteredWithoutCurrency ==
    /\ ZnsIsSupportedDomain(ToLowerCase(Trim(request.domain)))
    /\ chain.registryAddress # JsUndefined
    /\ chain.transport = <<>>
    /\ chain.registryRecord.present
    /\ chain.registryRecord.arguments[1] \notin {<<>>, <<"0", "x", "0">>}
    /\ chain.registryRecord.arguments[2] \notin {<<>>, <<"0", "x", "0">>}
    /\ \A i \in 1..Len(chain.resolverRecords) :
          chain.resolverRecords[i][1] # RequestedKey

\* the UNS backend, asked first for a .zil domain, reported it unregistered,
\* so that the lookup reached the Zilliqa backend
UnsPassed == chain.unsRecord.error.code = "UnregisteredDomain"

\* C10: a currency-address lookup, by Resolution.addr or by the backend's
\* address, on a registered domain with a resolver and no
\* crypto.<TICKER>.address record fails with UnspecifiedCurrency and never
\* with RecordNotFound
C10_MissingCurrencyIsUnspecifiedCurrency ==
    (response.op # "none" /\ RegisteredWithoutCurrency /\ UnsPassed) =>
        response.error.code = "UnspecifiedCurrency"

----------------------------------------------------------------------------
(* Properties of the Zilliqa backend's classification *)

\* the registry of the requested domain can be read: the backend supports the
\* domain and the network, and the transport answers
ChainReadable ==
    /\ ZnsIsSupportedDomain(request.domain)
    /\ chain.registryAddress # JsUndefined
    /\ chain.transport = <<>>

NoRegistryRecord == ~chain.registryRecord.present
RecordedOwner == chain.registryRecord.arguments[1]
RecordedResolver == chain.registryRecord.arguments[2]

\* C11: a currency-address lookup (the backend's address, or Resolution.addr
\* once the UNS backend reported the domain unregistered) on a supported
\* domain without a registry record, or whose recorded owner is empty or the
\* null address, fails with UnregisteredDomain whatever the ticker is
C11_UnregisteredBeforeCurrency ==
    (/\ \/ response.op = "Zns.address"
        \/ response.op = "Resolution.addr" /\ UnsPassed
     /\ ChainReadable
     /\ NoRegistryRecord \/ RecordedOwner \in {<<>>, <<"0", "x", "0">>}) =>
        response.error.code = "UnregisteredDomain"

\* C12: the Zilliqa backend's owner never fails with UnregisteredDomain; on a
\* supported domain without a registry record it returns null, and
\* Resolution.owner, once the UNS backend reported the domain unregistered,
\* returns that null as its result
C12_OwnerOfUnregisteredIsNull ==
    /\ response.op = "Zns.owner" => response.error.code # "UnregisteredDomain"
    /\ (/\ \/ response.op = "Zns.owner"
           \/ response.op = "Resolution.owner" /\ UnsPassed
        /\ ChainReadable
        /\ NoRegistryRecord) =>
          /\ response.error.class = "null"
          /\ response.result = <<"null">>

C12_Witness ==
    /\ response.op = "Resolution.owner"
    /\ UnsPassed /\ ChainReadable /\ NoRegistryRecord
    /\ response.error.class = "null"
    /\ response.result = <<"null">>

C15_TransportFailureIsNamingServiceDown ==
    /\ response.error.class # "Error"
    /\ (/\ chain.transport # <<>>
        /\ \/ response.op = "Ens.callMethod"
           \/ /\ response.op \in {"Zns.address", "Zns.owner", "Zns.resolver"}
              /\ ZnsIsSupportedDomain(request.domain)
              /\ chain.registryAddress # JsUndefined) =>
          /\ response.error.class = "ResolutionError"
          /\ response.error.code = "NamingServiceDown"

----------------------------------------------------------------------------
(* Properties of the record lookup *)

\* the requested domain is registered on the Zilliqa backend with an owner and
\* a resolver, the chain can be read, and the UNS backend, asked first,
\* reported the domain unregistered
RegisteredWithResolver ==
    /\ ChainReadable
    /\ UnsPassed
    /\ chain.registryRecord.present
    /\ RecordedOwner \notin {<<>>, <<"0", "x", "0">>}
    /\ RecordedResolver \notin {<<>>, <<"0", "x", "0">>}

\* the value the resolver holds for a key: <<>> when the key is absent
Held(key) ==
    IF \E i \in 1..Len(chain.resolverRecords) : chain.resolverRecords[i][1] = key
    THEN LET i == CHOOSE i \in 1..Len(chain.resolverRecords) :
                      chain.resolverRecords[i][1] = key
         IN  chain.resolverRecords[i][2]
    ELSE <<>>

\* the lookup returned the value
Returned(value) == response.error.class = "null" /\ response.result = value

PreferableLookup(op, newKey, oldKey) ==
    (response.op = op /\ RegisteredWithResolver) =>
        IF Held(newKey) # <<>> THEN Returned(Held(newKey))
        ELSE IF Held(oldKey) # <<>> THEN Returned(Held(oldKey))
        ELSE response.error.code = "RecordNotFound"

\* C14: on a registered domain with a resolver, record(domain, key) fails with
\* RecordNotFound when the value for the key is absent or the empty string and
\* returns the value otherwise, never an empty one; ipfsHash and httpUrl
\* return the new key's value when it is not empty, else the old key's value,
\* and fail with RecordNotFound only when both are empty
C14_RecordNotFoundOnlyWhenEmpty ==
    /\ (response.op = "Resolution.record" /\ RegisteredWithResolver) =>
          /\ Held(request.key) = <<>> => response.error.code = "RecordNotFound"
          /\ Held(request.key) # <<>> => Returned(Held(request.key))
          /\ ~Returned(<<>>)
    /\ PreferableLookup("Resolution.ipfsHash", DwebIpfsHash, IpfsHtmlValue)
    /\ PreferableLookup("Resolution.httpUrl", BrowserRedirectUrl, IpfsRedirectDomainValue)

\* ipfsHash fell back to the old key because the new key holds the empty string
C14_Witness ==
    /\ response.op = "Resolution.ipfsHash" /\ RegisteredWithResolver
    /\ \E i \in 1..Len(chain.resolverRecords) :
          chain.resolverRecords[i] = <<DwebIpfsHash, <<>>>>
    /\ Held(IpfsHtmlValue) = <<"o">>
    /\ Returned(<<"o">>)

----------------------------------------------------------------------------
(* Properties of the record structuring *)

FlatRecords == chain.resolverRecords
KeyTokens(i) == Split(FlatRecords[i][1], Dot)

Missing == [t |-> "missing", f |-> <<>>]

RECURSIVE Walk(_, _)
\* the node reached from a node of the nested map by walking the segments
Walk(node, tokens) ==
    IF tokens = <<>> THEN node
    ELSE IF node.t = "object" /\ Head(tokens) \in DOMAIN node.f
         THEN Walk(node.f[Head(tokens)], Tail(tokens))
         ELSE Missing

\* C16: after structuring a flat record set, in whatever order its keys come,
\* every intermediate level of every key is a nested map: no key of the set
\* has put a scalar where another key expanded a path segment into a map
C16_IntermediateLevelsAreMaps ==
    resolved.structured =>
        \A i \in 1..Len(FlatRecords) :
            \A n \in 1..(Len(KeyTokens(i)) - 1) :
                Walk(resolved.resolution, SubSeq(KeyTokens(i), 1, n)).t = "object"

\* no key of the flat record set is a dotted prefix of another one
PrefixFree ==
    \A i, j \in 1..Len(FlatRecords) :
        ~(/\ Len(KeyTokens(i)) < Len(KeyTokens(j))
          /\ SubSeq(KeyTokens(j), 1, Len(KeyTokens(i))) = KeyTokens(i))

RECURSIVE Leaves(_, _)
\* the leaves of a nested map, each with the path that leads to it
Leaves(node, path) ==
    IF node.t = "string" THEN {<<path, node.f>>}
    ELSE UNION {Leaves(node.f[k], Append(path, k)) : k \in DOMAIN node.f}

\* the input has crypto.<ticker>.address = value
HasAddress(ticker, value) ==
    \E i \in 1..Len(FlatRecords) :
        FlatRecords[i] = <<<<"c", "r", "y", "p", "t", "o", ".">> \o ticker
                             \o <<".", "a", "d", "d", "r", "e", "s", "s">>, value>>

\* C17: for a flat record set in which no key is a dotted prefix of another,
\* the leaves of the structured map are exactly the input entries, and the
\* extracted addresses map ticker T to v exactly when the input has
\* crypto.T.address = v with v not empty
C17_StructureRoundTrip ==
    PrefixFree =>
        /\ resolved.structured =>
              Leaves(resolved.resolution, <<>>)
                = {<<KeyTokens(i), FlatRecords[i][2]>> : i \in 1..Len(FlatRecords)}
        /\ resolved.extracted =>
              /\ \A ticker \in DOMAIN resolved.addresses :
                    /\ resolved.addresses[ticker] # <<>>
                    /\ HasAddress(ticker, resolved.addresses[ticker])
              /\ \A ticker \in {<<"B", "T", "C">>, <<"E", "T", "H">>} :
                    \A value \in {<<"v">>, <<"w">>} :
                       HasAddress(ticker, value) =>
                          /\ ticker \in DOMAIN resolved.addresses
                          /\ resolved.addresses[ticker] = value

----------------------------------------------------------------------------
(* Properties of the hash formatting *)

Digits16 == <<"0", "1", "2", "3", "4", "5", "6", "7", "8", "9",
              "a", "b", "c", "d", "e", "f">>

DigitOf(ch) == (CHOOSE i \in 1..16 : Digits16[i] = ch) - 1

RECURSIVE Unsigned(_, _)
\* the digits read as an unsigned integer in the given base
Unsigned(digits, base) ==
    IF digits = <<>> THEN 0
    ELSE Unsigned(SubSeq(digits, 1, Len(digits) - 1), base) * base
           + DigitOf(digits[Len(digits)])

RECURSIVE HexOfWidth(_, _)
\* an unsigned integer as hex digits of a fixed width
HexOfWidth(n, width) ==
    IF width = 0 THEN <<>>
    ELSE HexOfWidth(n \div 16, width - 1) \o <<Digits16[(n % 16) + 1]>>

\* the hex digits of the hash that was formatted, two for each byte
FormattedBytes == SubSeq(formatted.hash, 3, Len(formatted.hash))

\* the bytes an output stands for, read from the output and the options alone
Decode(out, options) ==
    IF options.format = "dec" THEN HexOfWidth(Unsigned(out, 10), 2 * HashLen)
    ELSE IF options.prefix THEN SubSeq(out, 3, Len(out))
    ELSE out

\* C18: formatNamehash re-encodes the hash without loss: the hex output has
\* two digits for each byte and a 0x prefix exactly when options.prefix is
\* set, the decimal output is the hash read as an unsigned integer, and the
\* bytes can be read back from the output and the options alone, so that two
\* hashes never share an output
C18_FormatIsLossless ==
    formatted.out # NoHash =>
        /\ Len(FormattedBytes) = 2 * HashLen
        /\ Decode(formatted.out, formatted.options) = FormattedBytes
        /\ formatted.options.format = "hex" =>
              /\ Len(formatted.out)
                   = 2 * HashLen + (IF formatted.options.prefix THEN 2 ELSE 0)
              /\ formatted.options.prefix
                   <=> SubSeq(formatted.out, 1, 2) = <<"0", "x">>
        /\ formatted.options.format = "dec" =>
              /\ \A i \in 1..Len(formatted.out) : DigitOf(formatted.out[i]) < 10
              /\ Unsigned(formatted.out, 10) = Unsigned(FormattedBytes, 16)

\* a hash with a leading zero digit was formatted as a decimal integer, which
\* is shorter than the hash and still decodes to it
C18_Witness ==
    /\ formatted.out # NoHash
    /\ formatted.options.format = "dec"
    /\ formatted.hash[3] = "0"
    /\ Decode(formatted.out, formatted.options) = FormattedBytes

----------------------------------------------------------------------------
(* Properties of the backend configuration *)

\* a constructor ran on the source definition
ConstructorRan == backend.state # "none"

\* the source definition names only a network
OnlyNetwork ==
    /\ sourceDefinition.shape = "object"
    /\ ~IsTruthy(sourceDefinition.url)
    /\ ~IsTruthy(sourceDefinition.provider)
    /\ ~IsTruthy(sourceDefinition.registry)

KnownEndpoint(network) ==
    IF network.v \in {<<"1">>, StrMainnet}
    THEN Str(<<"h", "t", "t", "p", "s", ":", "/", "/", "a", "p", "i", ".", "z", "i", "l", "l", "i", "q", "a", ".", "c", "o", "m">>)
    ELSE IF network.v \in {<<"3", "3", "3">>, StrTestnet}
    THEN Str(<<"h", "t", "t", "p", "s", ":", "/", "/", "d", "e", "v", "-", "a", "p", "i", ".", "z", "i", "l", "l", "i", "q", "a", ".", "c", "o", "m">>)
    ELSE IF network.v \in {<<"1", "1", "1">>, StrLocalnet}
    THEN Str(<<"h", "t", "t", "p", ":", "/", "/", "l", "o", "c", "a", "l", "h", "o", "s", "t", ":", "4", "2", "0", "1">>)
    ELSE Undefined

\* C20: normalization keeps a supplied url whatever the network, leaves the
\* url alone when a provider was supplied, and changes the url only when
\* neither was supplied: then a Zilliqa backend gets the endpoint of its
\* resolved network when that network is a known one, and no url otherwise.
C20_UrlDefaultedOnlyWhenNeitherSupplied ==
    ConstructorRan =>
        /\ IsTruthy(sourceDefinition.url) => backend.url = sourceDefinition.url
        /\ IsTruthy(sourceDefinition.provider) => backend.url = sourceDefinition.url
        /\ backend.url # sourceDefinition.url =>
              /\ ~IsTruthy(sourceDefinition.url)
              /\ ~IsTruthy(sourceDefinition.provider)
        /\ (/\ sourceDefinition.class \in {"Zns", "ZnsNamed"}
            /\ ~IsTruthy(sourceDefinition.url)
            /\ ~IsTruthy(sourceDefinition.provider)) =>
              IF IsTruthy(KnownEndpoint(backend.network))
              THEN backend.url = KnownEndpoint(backend.network)
              ELSE ~IsTruthy(backend.url)

\* new Zns({network: 333, provider}) kept its url undefined
C20_Witness ==
    /\ sourceDefinition.class = "Zns"
    /\ sourceDefinition.network = Num(<<"3", "3", "3">>)
    /\ ~IsTruthy(sourceDefinition.url)
    /\ IsTruthy(sourceDefinition.provider)
    /\ backend.state = "constructed"
    /\ backend.url = Undefined

\* the default registries of the known Zilliqa networks, by id and by name
KnownRegistry(network) ==
    IF network.v \in {<<"1">>, StrMainnet}
    THEN Str(<<"z", "i", "l", "1", "j", "c", "g", "u", "2", "w", "l", "x", "6", "x", "e", "j", "q", "k", "9", "j", "w", "3", "a", "a", "a", "n", "k", "w", "6", "l", "s", "j", "z", "e", "u", "n", "x", "2", "j", "0", "j", "z">>)
    ELSE Undefined

\* a Zilliqa backend was constructed from the source definition
ZnsConstructed ==
    /\ backend.state = "constructed"
    /\ backend.class \in {"Zns", "ZnsNamed"}

\* C21: the registry address of a constructed Zilliqa backend is the supplied
\* one, in bech32 encoding when it was supplied in 0x form; without a supplied
\* one it is the default registry of the resolved network, and absent when
\* that network has none (testnet 333).
C21_RegistrySuppliedOrDefault ==
    ZnsConstructed =>
        IF IsTruthy(sourceDefinition.registry)
        THEN IF StartsWith(sourceDefinition.registry.v, <<"0", "x">>)
             THEN /\ backend.registry.type = "string"
                  /\ StartsWith(backend.registry.v, <<"z", "i", "l", "1">>)
                  /\ backend.registry = Str(toBech32Address(sourceDefinition.registry.v))
             ELSE backend.registry = sourceDefinition.registry
        ELSE /\ backend.registry = KnownRegistry(backend.network)
             /\ backend.network.v \in {<<"3", "3", "3">>, StrTestnet} =>
                   backend.registry = Undefined

\* new Zns({registry: '0x..'}) holds the bech32 form of the supplied registry
C21_Witness ==
    /\ ZnsConstructed
    /\ sourceDefinition.registry = Str(<<"0", "x", "r">>)
    /\ backend.registry = Str(<<"z", "i", "l", "1", "r">>)

\* the network a known Zilliqa endpoint belongs to, as the backend names it
EndpointNetwork(class, url) ==
    IF url = Str(<<"h", "t", "t", "p", "s", ":", "/", "/", "a", "p", "i", ".", "z", "i", "l", "l", "i", "q", "a", ".", "c", "o", "m">>)
    THEN (IF class = "Zns" THEN Num(<<"1">>) ELSE Str(StrMainnet))
    ELSE IF url = Str(<<"h", "t", "t", "p", "s", ":", "/", "/", "d", "e", "v", "-", "a", "p", "i", ".", "z", "i", "l", "l", "i", "q", "a", ".", "c", "o", "m">>)
    THEN (IF class = "Zns" THEN Num(<<"3", "3", "3">>) ELSE Str(StrTestnet))
    ELSE IF url = Str(<<"h", "t", "t", "p", ":", "/", "/", "l", "o", "c", "a", "l", "h", "o", "s", "t", ":", "4", "2", "0", "1">>)
    THEN (IF class = "Zns" THEN Num(<<"1", "1", "1">>) ELSE Str(StrLocalnet))
    ELSE Undefined

\* C30: normalizing a source with a url and no network resolves the network
\* the url is the endpoint of; the default network (1, mainnet) is taken only
\* when the url is absent or is no known endpoint.
C30_NetworkFromKnownUrl ==
    (/\ ConstructorRan
     /\ sourceDefinition.class \in {"Zns", "ZnsNamed"}
     /\ ~IsTruthy(sourceDefinition.network)) =>
        IF IsTruthy(EndpointNetwork(sourceDefinition.class, sourceDefinition.url))
        THEN backend.network
                = EndpointNetwork(sourceDefinition.class, sourceDefinition.url)
        ELSE backend.network \in {Num(<<"1">>), Str(StrMainnet)}

----------------------------------------------------------------------------
(* Properties of the returned addresses *)

\* the bech32 encoding of a recorded address, whichever encoding it is in
Bech32Of(address) ==
    IF StartsWith(address, <<"0", "x">>) THEN toBech32Address(address) ELSE address

\* C26: an owner or resolver address the Zilliqa backend returns is the
\* bech32 encoding of the recorded account, so that one account recorded in
\* 0x form and in bech32 form yields one returned string
C26_ReturnedAddressesAreCanonical ==
    (/\ response.op \in {"Zns.owner", "Zns.resolver"}
     /\ ChainReadable
     /\ response.error.class = "null"
     /\ response.result # <<"null">>) =>
        response.result
          = Bech32Of(IF response.op = "Zns.owner" THEN RecordedOwner
                     ELSE RecordedResolver)

----------------------------------------------------------------------------
(* Properties of the supported domains *)

\* the domain has an empty label: it is empty, starts or ends with a dot, or
\* has two dots in a row
HasEmptyLabel(d) ==
    \/ d = <<>>
    \/ d[1] = Dot
    \/ d[Len(d)] = Dot
    \/ \E i \in 1..(Len(d) - 1) : d[i] = Dot /\ d[i + 1] = Dot

\* the last label of the domain is zil
LastLabelIsZil(d) ==
    \/ d = StrZil
    \/ Len(d) > 3 /\ SubSeq(d, Len(d) - 3, Len(d)) = <<Dot>> \o StrZil

\* C22: isSupportedDomain of Zns and of Ens is false on a domain with an
\* empty label; for Zns it is true exactly when the last label is zil and no
\* label is empty, labels that start or end with a hyphen included
C22_NoEmptyLabelSupported ==
    response.op \in {"Zns.isSupportedDomain", "Ens.isSupportedDomain"} =>
        /\ HasEmptyLabel(request.domain) => response.result = JsFalse
        /\ response.op = "Zns.isSupportedDomain" =>
              (response.result = JsTrue
                 <=> LastLabelIsZil(request.domain) /\ ~HasEmptyLabel(request.domain))

----------------------------------------------------------------------------
(* Properties of the public operations *)

\* a public operation was called and took its domain
TookDomain ==
    /\ method # "none"
    /\ ~(method = "namehash" /\ pc = "thrown")

\* C24: every public operation that takes a domain routes on the trimmed,
\* lowercased domain and hands that domain to the backends, never the string
\* the caller passed
C24_DomainNormalizedBeforeDispatch ==
    TookDomain =>
        /\ domain = ToLowerCase(Trim(rawDomain))
        /\ (args # <<>> /\ method # "tokenURI") => args[1] = ToLowerCase(Trim(rawDomain))

\* C25: the native service of either zone is a chain-backed backend under
\* every source configuration, API mode and autoNetwork included, so that
\* namehash is computed by the zone's own scheme without asking any backend
C25_NativeIsChainBacked ==
    /\ \A zone \in DOMAIN serviceMap :
          serviceMap[zone].native.class \in {"Uns", "Zns"}
    /\ (method = "namehash" /\ pc = "hashed") =>
          /\ hashIn.alg \in {"sha256", "keccak256"}
          /\ formatted.hash # NoHash
          /\ formatted.out # NoHash
          /\ servicePromises = <<>>

\* namehash on the Zilliqa zone of an instance that resolves through the API
C25_Witness ==
    /\ \E i \in 1..Len(serviceMap[ZNS].usedServices) :
          serviceMap[ZNS].usedServices[i].class = "UdApi"
    /\ method = "namehash" /\ pc = "hashed"
    /\ hashIn.alg = "sha256"
    /\ formatted.out = znsNamehash(domain)

----------------------------------------------------------------------------
(* Properties of the error objects *)

\* C23: a ResolutionError exposes as fields the values that apply to its code
\* and were in scope where it was raised: domain for UnregisteredDomain,
\* UnspecifiedResolver and UnsupportedDomain, currencyTicker for the currency
\* codes, recordName for RecordNotFound, method for NamingServiceDown; and
\* every option passed to the constructor can be read back from the error
C23_ErrorsCarryTheirContext ==
    thrown # NoThrown =>
        /\ thrown.code \in {UnregisteredDomain, UnspecifiedResolver, UnsupportedDomain} =>
              ReadField(thrown, "domain") = site.domain
        /\ thrown.code \in {UnspecifiedCurrency, "UnsupportedCurrency"} =>
              ReadField(thrown, "currencyTicker") = site.currencyTicker
        /\ thrown.code = RecordNotFound =>
              ReadField(thrown, "recordName") = site.recordName
        /\ thrown.code = NamingServiceDown =>
              ReadField(thrown, "method") # JsUndefined
        /\ \A f \in site.passes : ReadField(thrown, f) = site[f]

----------------------------------------------------------------------------
(* Properties of the Ens calls *)

\* the entries of the requested ticker in the coin-type table
TickerEntries ==
    SelectSeq(ensChain.constants,
              LAMBDA item : item[2] = ToUpperCase(ens.currencyTicker))

\* C29: Ens.address reads the resolver's address with the coin type of the
\* requested ticker whenever the ticker has exactly one entry in the coin-type
\* table, coin type 0 included, and never with the untyped read; a ticker
\* without a unique entry fails with UnsupportedCurrency
C29_AddressReadIsTyped ==
    ens.op = "address" =>
        /\ \A i \in DOMAIN ens.issued :
              ens.issued[i].method = "addr" =>
                  /\ Len(TickerEntries) = 1
                  /\ ens.issued[i].args = <<TickerEntries[1][1]>>
        /\ (ens.resolver # JsUndefined /\ Len(TickerEntries) # 1) =>
              /\ ens.state = "rejected"
              /\ ens.error.code = "UnsupportedCurrency"

\* C27: Ens.resolve issues the owner, ttl and resolver reads at once and the
\* address read only when all three are fulfilled; owner, ttl and resolver of
\* the result are the answers to the reads of those names whatever order they
\* settled in; and when one of the three fails the resolve fails and returns
\* nothing
C27_ResolveJoinsThreeReads ==
    (ens.op = "resolve" /\ ens.slots # <<>>) =>
        /\ SubSeq(ens.issued, 1, 3) = getResolutionInfo
        /\ (Len(ens.issued) > 3 =>
               /\ ens.issued[4].method = "addr"
               /\ \A i \in 1..3 : ens.slots[i].state = "fulfilled")
        /\ ens.state = "fulfilled" =>
               /\ ens.resolution.meta.owner =
                     (IF ensChain.owner = NullAddress THEN JsNull ELSE ensChain.owner)
               /\ ens.resolution.meta.ttl = DecimalValue(ensChain.ttl)
               /\ ens.resolution.addresses.ETH =
                     (IF ensChain.resolver = NullAddress THEN JsNull ELSE ensChain.addr)
        /\ (\E i \in 1..3 : ens.slots[i].state = "rejected") =>
               /\ ens.state = "rejected"
               /\ ens.resolution = NoEnsResolution
               /\ Len(ens.issued) = 3

\* a resolve that returned after the three reads settled out of their order
C27_Witness ==
    /\ ens.op = "resolve"
    /\ ens.state = "fulfilled"
    /\ ens.settled = <<3, 1, 2>>
    /\ ens.resolution.meta.owner = <<"0", "x", "a">>
    /\ ens.resolution.meta.ttl = 300
    /\ ens.resolution.addresses.ETH = <<"0", "x", "e">>

----------------------------------------------------------------------------
(* Frame of the resolution calls *)

\* the configuration a backend keeps after construction
BackendConfiguration(b) ==
    [class |-> b.class, network |-> b.network, url |-> b.url,
     provider |-> b.provider, registry |-> b.registry]

\* the outcome of a finished call is the one of the loop of callForDomain run
\* over the responses the backends gave to that call
ReturnsAsAlone(call) ==
    call.pc \in {"returned", "thrown"} =>
        LET alone == callForDomainLoop(call.servicePromises, call.domain)
        IN  /\ call.callOutcome.result = alone.result
            /\ call.callOutcome.error = alone.error

\* C28: no step of a resolution call changes the serviceMap of the instance,
\* the configuration of a constructed backend or the source object the
\* caller handed to the constructor; and each of two calls interleaved on the
\* instance ends with the outcome it has when run alone against the
\* responses its backends gave
C28_CallsShareNoMutableState ==
    /\ [][/\ serviceMap' = serviceMap
          /\ sourceDefinition' = sourceDefinition
          /\ backend.state = "constructed" =>
                BackendConfiguration(backend') = BackendConfiguration(backend)]_vars
    /\ [](ReturnsAsAlone(CallFrame) /\ ReturnsAsAlone(other))

\* two calls on the two-backend list finished with different outcomes, one
\* of them after its backends answered in reverse order, next to a backend
\* that was constructed and asked
C28_Witness ==
    /\ pc = "returned"
    /\ callOutcome.result = "r1"
    /\ idx = 2
    /\ other.pc = "thrown"
    /\ other.callOutcome.error.code = NamingServiceDown
    /\ other.settleOrder = <<2, 1>>
    /\ backend.state = "constructed"
    /\ backend.calls = 1
    /\ backend.registry # sourceDefinition.registry

====
